---- MODULE Spec2Model ----
(***************************************************************************)
(* E2E monitor: the Task store (DynamoDB results table), the init-record   *)
(* Lambda, the two reconciler entry points of the email-ingest Lambda      *)
(* (upsertEventRecord, attachBalanceByTimeWindow) and the Step Functions   *)
(* attempt/poll state machine.                                             *)
(*                                                                         *)
(* Every store request (Put, Get, Query, Update) is one atomic step; the   *)
(* code between two requests of one invocation runs with the request that  *)
(* precedes it.  Invocations interleave freely at request granularity.     *)
(* An index query returns the table as it is at the time of the query.     *)
(* A handler reads Date.now() at its entry; the clock advances there.      *)
(*                                                                         *)
(* Every state of the state machine is one step.  The Task states carry no *)
(* TimeoutSeconds, so the time they take is not bounded and the timeout of *)
(* the execution can fire in any state after the first; service errors of  *)
(* Task states are not modelled.                                           *)
(***************************************************************************)
EXTENDS Integers, Sequences, FiniteSets, TLC

VARIABLES
    tasks,      \* the results table: correlationId -> item (a partial function)
    now,        \* Date.now(), milliseconds
    procs,      \* Lambda invocations: slot -> invocation record
    sm,         \* the Step Functions execution: state, status and state data
    metrics,    \* CloudWatch metric data put by the execution, in order
    queue,      \* message bodies sent to the SQS queue, in order
    config,     \* deployment: SF_TOTAL_ATTEMPTS, SF_SUCCESS_MODE
    mail,       \* the mail that email-ingest classifies: subject and decoded text
    classification,  \* the result of classifyEmail, once computed
    ingest,     \* an email-ingest invocation: its records, position and calls
    sender,     \* a tx-sender invocation: its batch, position and results
    chain       \* the E2eMonitor contract: role members and events emitted

vars ==
    <<tasks, now, procs, sm, metrics, queue, config, mail, classification,
      ingest, sender, chain>>
orchVars == <<sm, metrics, queue, config, mail, classification, ingest, sender, chain>>

----------------------------------------------------------------------------
(* Bounds of the model *)

NProcs == 2          \* Lambda invocations in one behaviour
MaxTicks == 2        \* times the clock advances in one behaviour
SeedGapMs == 1000    \* age of the older Task of an initial table, in ms
MaxTotalAttempts == 2   \* largest SF_TOTAL_ATTEMPTS deployed
StartMs == 1500      \* Date.now() of the initial state
TickMs == 400250     \* one clock advance, in ms

Procs == 1..NProcs

(* Input domains *)
Ids == {"u1", "u2"}                  \* correlationId values (UUIDs)
TxHashes == {"0xAAA", "0xCCC"}       \* transaction hashes carried by event mails
AttemptsIn == {1, 2}                 \* event.attempt
TotalAttemptsIn == {3}               \* event.totalAttempts

NoHex == "NoHex"     \* event.correlationIdHex absent
NoTx == "NoTx"       \* attribute txHash absent
NoMs == 0            \* a timestamp attribute absent (undefined, falsy)
NoId == "NoId"
NoSeed == 0          \* tagSeed absent
Nothing == [i \in {} |-> FALSE]      \* an object without fields
NoMail == [subject |-> <<>>, text |-> <<>>]   \* no mail under classification

\* uuids, in the order in which the model draws them
IdSeq == <<"u1", "u2", "u3", "u4">>

----------------------------------------------------------------------------
(* Program constants *)

TTL_SECONDS_5_YEARS == 5 * 365 * 24 * 60 * 60
WINDOW_MINUTES == 10
EventQueryLimit == 10
BalanceQueryLimit == 20

----------------------------------------------------------------------------
(* Pure helpers *)

\* `0x${createHash('sha256').update(correlationId).digest('hex')}`: a fixed
\* injective map from ids into the separate domain of hex32 strings.
Sha256Hex(id) ==
    CASE id = "u1" -> "0xh1"
      [] id = "u2" -> "0xh2"
      [] id = "u3" -> "0xh3"
      [] id = "u4" -> "0xh4"
      [] id = "0xh1" -> "0xhh1"
      [] OTHER -> "0xh0"

Hexes == {Sha256Hex(i) : i \in Ids}
HexArgs == {NoHex}                   \* event.correlationIdHex of init-record
EventHexes == Hexes                  \* correlationIdHex extracted from a receipt

\* Math.floor(createdAtMs / 1000) + TTL_SECONDS_5_YEARS
TtlOf(createdAtMs) == (createdAtMs \div 1000) + TTL_SECONDS_5_YEARS

\* the time of the transition, whatever the record holds
TransitionTime(ms, fallback) == fallback

\* existing.createdAtMs || Date.now()
OrNow(ms, fallback) == IF ms = NoMs THEN fallback ELSE ms

\* makeEventBucket: the UTC minute of the timestamp
makeEventBucket(epochMs) == epochMs \div 60000

\* the documented mapping from the two flags to status
StatusOf(ev, bal) ==
    CASE ev /\ bal -> "SUCCESS"
      [] ev /\ ~bal -> "EVENT_ONLY"
      [] ~ev /\ bal -> "BALANCE_ONLY"
      [] OTHER -> "PENDING"

\* a query result that is not cut at the Limit
TakeAll(s, n) == s

Take(s, n) == IF Len(s) <= n THEN s ELSE SubSeq(s, 1, n)

\* all orders of the items of the set S by createdAtMs, ascending for sign 1
\* and descending for sign -1; items of equal createdAtMs come in either order
RECURSIVE ByCreatedAt(_, _)
ByCreatedAt(S, sign) ==
    IF S = {} THEN {<<>>}
    ELSE UNION {{<<t>> \o s : s \in ByCreatedAt(S \ {t}, sign)} :
                   t \in {u \in S : \A v \in S :
                                      sign * u.createdAtMs <= sign * v.createdAtMs}}

\* the index read forward: oldest createdAtMs first
OldestFirst(S) == ByCreatedAt(S, 1)

\* the index read backward (ScanIndexForward false): newest createdAtMs first
NewestFirst(S) == ByCreatedAt(S, -1)

AllItems == {tasks[i] : i \in DOMAIN tasks}

\* a query whose key condition has no lower bound on createdAtMs
GSI_TimeOrderNoStart(lo, hi, limit) ==
    {Take(s, limit) : s \in NewestFirst({t \in AllItems : t.createdAtMs <= hi})}

\* the index read with ScanIndexForward true
GSI_TimeOrderForward(lo, hi, limit) ==
    {Take(s, limit) :
        s \in OldestFirst({t \in AllItems : t.createdAtMs >= lo /\ t.createdAtMs <= hi})}

\* Query on GSI_TimeOrder (recordType = 'E2E_TASK'), ScanIndexForward false,
\* createdAtMs in [lo, hi], at most limit items
GSI_TimeOrder(lo, hi, limit) ==
    {Take(s, limit) :
        s \in NewestFirst({t \in AllItems : t.createdAtMs >= lo /\ t.createdAtMs <= hi})}

PutItem(item) ==
    [i \in DOMAIN tasks \cup {item.correlationId} |->
        IF i = item.correlationId THEN item ELSE tasks[i]]

----------------------------------------------------------------------------
(* Invocations *)

IdleProc ==
    [op |-> "none", pc |-> "idle", correlationId |-> NoId, correlationIdHex |-> NoHex,
     txHash |-> NoTx, attempt |-> 0, totalAttempts |-> 0, nowMs |-> NoMs,
     items |-> <<>>, outcome |-> "none"]

\* slots are taken in order
CanStart(p) == procs[p].pc = "idle" /\ (IF p = 1 THEN TRUE ELSE procs[p - 1].pc # "idle")

\* the invocation returns; its locals are gone, the model keeps what it was
\* called with, the record it settled on and what it reported
Finish(p, rec, outcome) ==
    procs' = [procs EXCEPT ![p] =
                [IdleProc EXCEPT !.op = rec.op, !.pc = "done",
                                 !.correlationId = rec.correlationId,
                                 !.correlationIdHex = rec.correlationIdHex,
                                 !.txHash = rec.txHash,
                                 !.outcome = outcome]]

EmptyTable == [i \in {} |-> IdleProc]

\* an id that is generated once for the execution and used by every attempt
ReusedId == IdSeq[1]

\* uuidv4 ids are drawn fresh; the model names them in the order of first use
FreshId ==
    IdSeq[CHOOSE k \in 1..Len(IdSeq) :
            /\ IdSeq[k] \notin DOMAIN tasks
            /\ \A j \in 1..(k - 1) : IdSeq[j] \in DOMAIN tasks]

\* Date.now() as read at handler entry: the clock has advanced by some ticks
\* since it was last read
ClockReads ==
    {now + k * TickMs : k \in 0..(MaxTicks - ((now - StartMs) \div TickMs))}

----------------------------------------------------------------------------
(* init-record Lambda *)

\* event.attempt || 1, event.totalAttempts || 3
OrDefault(v, d) == IF v = 0 THEN d ELSE v

\* event.correlationIdHex || sha256 of correlationId
HexOrHash(hexArg, id) == IF hexArg = NoHex THEN Sha256Hex(id) ELSE hexArg

\* the item built by the handler
NewItem(id, hexArg, attempt, totalAttempts, nowMs) ==
    [correlationId |-> id,
     correlationIdHex |-> HexOrHash(hexArg, id),
     createdAtMs |-> nowMs,
     attempt |-> OrDefault(attempt, 1),
     totalAttempts |-> OrDefault(totalAttempts, 3),
     status |-> "PENDING",
     correlationResolved |-> FALSE,
     balanceReceived |-> FALSE,
     updatedAtMs |-> nowMs,
     ttl |-> TtlOf(nowMs),
     txHash |-> NoTx,
     eventEmailAtMs |-> NoMs,
     eventBucket |-> NoMs,
     balanceEmailAtMs |-> NoMs]

\* a Task as init-record wrote it at nowMs, before any mail arrived
CreatedItem(id, nowMs) == NewItem(id, NoHex, 1, 3, nowMs)

\* tables that earlier init-record invocations left behind: no Task, one
\* Task, two Tasks of the same millisecond, an older and a newer Task
InitialTables ==
    {EmptyTable,
     [i \in {"u1"} |-> CreatedItem(i, StartMs)],
     [i \in {"u1", "u2"} |-> CreatedItem(i, StartMs)],
     [i \in {"u1", "u2"} |->
         CreatedItem(i, IF i = "u1" THEN StartMs - SeedGapMs ELSE StartMs)]}

\* a Put without its ConditionExpression (a blind overwrite)
PutConditionNone(id) == TRUE

\* ConditionExpression of the Put: attribute_not_exists(correlationId)
PutCondition(id) == id \notin DOMAIN tasks

\* PutCommand; on ConditionalCheckFailedException the handler goes on to
\* read the existing record
InitPut(p, id, hexArg, attempt, totalAttempts) ==
    /\ CanStart(p)
    /\ id \in DOMAIN tasks \/ id = FreshId
    /\ now' \in ClockReads
    /\ LET rec == [IdleProc EXCEPT !.op = "init", !.correlationId = id,
                       !.correlationIdHex = hexArg,
                       !.attempt = OrDefault(attempt, 1),
                       !.totalAttempts = OrDefault(totalAttempts, 3),
                       !.nowMs = now']
       IN IF PutCondition(id)
          THEN /\ tasks' = PutItem(NewItem(id, hexArg, attempt, totalAttempts, now'))
               /\ Finish(p, rec, "created")
          ELSE /\ procs' = [procs EXCEPT ![p] = [rec EXCEPT !.pc = "get"]]
               /\ UNCHANGED tasks
    /\ UNCHANGED orchVars

\* GetCommand of the existing record
InitGet(p) ==
    /\ procs[p].op = "init" /\ procs[p].pc = "get"
    /\ procs' = [procs EXCEPT ![p].pc = "update",
                              ![p].items = <<tasks[procs[p].correlationId]>>]
    /\ UNCHANGED <<tasks, now>>
    /\ UNCHANGED orchVars

\* a retry that writes the freshly built item's flags and status back
RetryFieldsReset(item, rec) ==
    [item EXCEPT !.attempt = rec.attempt,
                 !.totalAttempts = rec.totalAttempts,
                 !.updatedAtMs = rec.nowMs,
                 !.ttl = TtlOf(OrNow(rec.items[1].createdAtMs, rec.nowMs)),
                 !.status = "PENDING",
                 !.correlationResolved = FALSE,
                 !.balanceReceived = FALSE]

\* the fields the retry writes
RetryFields(item, rec) ==
    [item EXCEPT !.attempt = rec.attempt,
                 !.totalAttempts = rec.totalAttempts,
                 !.updatedAtMs = rec.nowMs,
                 !.ttl = TtlOf(OrNow(rec.items[1].createdAtMs, rec.nowMs))]

\* UpdateCommand of the retry (no condition)
InitUpdate(p) ==
    /\ procs[p].op = "init" /\ procs[p].pc = "update"
    /\ tasks' = [tasks EXCEPT ![procs[p].correlationId] = RetryFields(@, procs[p])]
    /\ Finish(p, procs[p], "updated")
    /\ UNCHANGED now
    /\ UNCHANGED orchVars

----------------------------------------------------------------------------
(* email-ingest Lambda: upsertEventRecord *)

\* FilterExpression of the lookup
\* a filter that does not compare correlationIdHex
EventFilterAnyHex(t, h) == t.correlationResolved = FALSE

EventFilter(t, h) == t.correlationIdHex = h /\ t.correlationResolved = FALSE

\* an event update that always reports the probe complete
EventNewStatusAlwaysSuccess(existing) == "SUCCESS"

\* newStatus of the event update, from the record as read
EventNewStatus(existing) ==
    IF existing.balanceReceived = TRUE THEN "SUCCESS" ELSE "EVENT_ONLY"

\* an event update without its ConditionExpression
EventConditionNone(id) == TRUE

\* ConditionExpression of the event update
EventCondition(id) == tasks[id].correlationResolved = FALSE

\* whether the name correlationId, declared by const inside the try block,
\* is in scope in the catch block that logs it
CorrelationIdInCatchScope == FALSE

\* the catch block on ConditionalCheckFailedException: evaluating the log
\* argument raises ReferenceError before the metric, and the handler's catch
\* around upsertEventRecord counts Failures/DdbError
EventConflictOutcome ==
    IF CorrelationIdInCatchScope
    THEN "SoftMiss/EventRaceCondition"
    ELSE "Failures/DdbError"

\* QueryCommand on GSI_TimeOrder with Limit 10 and the filter, then the
\* branches on the result
EventQuery(p, h, tx) ==
    /\ CanStart(p)
    /\ now' \in ClockReads
    /\ \E result \in GSI_TimeOrder(0, now', EventQueryLimit) :
         LET Items == SelectSeq(result, LAMBDA t : EventFilter(t, h))
             rec == [IdleProc EXCEPT !.op = "event", !.correlationIdHex = h,
                                     !.txHash = tx, !.nowMs = now']
         IN IF Items = <<>>
            THEN Finish(p, rec, "SoftMiss/EventRecordNotFound")
            ELSE IF Items[1].correlationResolved = TRUE
            THEN Finish(p, [rec EXCEPT !.correlationId = Items[1].correlationId],
                        "SoftMiss/EventDuplicate")
            ELSE procs' = [procs EXCEPT ![p] =
                             [rec EXCEPT !.pc = "update",
                                         !.correlationId = Items[1].correlationId,
                                         !.items = <<Items[1]>>]]
    /\ UNCHANGED tasks
    /\ UNCHANGED orchVars

\* the SET clause of the event update
EventFields(item, rec) ==
    [item EXCEPT !.txHash = rec.txHash,
                 !.correlationIdHex = rec.correlationIdHex,
                 !.correlationResolved = TRUE,
                 !.eventEmailAtMs = rec.nowMs,
                 !.eventBucket = makeEventBucket(rec.nowMs),
                 !.status = EventNewStatus(rec.items[1]),
                 !.updatedAtMs = rec.nowMs,
                 !.ttl = TtlOf(OrNow(rec.items[1].createdAtMs, rec.nowMs))]

\* conditional UpdateCommand
EventUpdate(p) ==
    /\ procs[p].op = "event" /\ procs[p].pc = "update"
    /\ IF EventCondition(procs[p].correlationId)
       THEN /\ tasks' = [tasks EXCEPT ![procs[p].correlationId] = EventFields(@, procs[p])]
            /\ Finish(p, procs[p], "EventApplied")
       ELSE /\ Finish(p, procs[p], EventConflictOutcome)
            /\ UNCHANGED tasks
    /\ UNCHANGED now
    /\ UNCHANGED orchVars

\* the QueryCommand of upsertEventRecord throws: the catch block rethrows and
\* the handler counts Failures/DdbError
EventQueryError(p, h, tx) ==
    /\ CanStart(p)
    /\ now' \in ClockReads
    /\ Finish(p, [IdleProc EXCEPT !.op = "event", !.correlationIdHex = h,
                                  !.txHash = tx, !.nowMs = now'],
              "Failures/DdbError")
    /\ UNCHANGED tasks
    /\ UNCHANGED orchVars

\* the UpdateCommand throws an error other than ConditionalCheckFailedException
EventUpdateError(p) ==
    /\ procs[p].op = "event" /\ procs[p].pc = "update"
    /\ Finish(p, procs[p], "Failures/DdbError")
    /\ UNCHANGED tasks
    /\ UNCHANGED now
    /\ UNCHANGED orchVars

----------------------------------------------------------------------------
(* email-ingest Lambda: attachBalanceByTimeWindow *)

IsEventOnly(item) == item.correlationResolved = TRUE /\ item.balanceReceived # TRUE
IsPending(item) == item.correlationResolved # TRUE /\ item.balanceReceived # TRUE

\* candidates in query order, without the two priority tiers
CandidatesUntiered(result) ==
    SelectSeq(result, LAMBDA t : IsEventOnly(t) \/ IsPending(t))

\* [...eventOnlyCandidates, ...pendingCandidates]
Candidates(result) == SelectSeq(result, IsEventOnly) \o SelectSeq(result, IsPending)

\* a balance update that always reports the probe complete
BalanceNewStatusAlwaysSuccess(cand) == "SUCCESS"

\* newStatus of the balance update, from the candidate as read
BalanceNewStatus(cand) ==
    IF cand.correlationResolved = TRUE THEN "SUCCESS" ELSE "BALANCE_ONLY"

\* a balance update without its ConditionExpression
BalanceConditionNone(id) == TRUE

\* a check of the flag on the candidate as the query returned it, in place
\* of a condition that the store evaluates with the write
BalanceConditionAsRead(id) ==
    \E p \in Procs :
       /\ procs[p].op = "balance" /\ procs[p].pc = "loop"
       /\ Head(procs[p].items).correlationId = id
       /\ Head(procs[p].items).balanceReceived = FALSE

\* ConditionExpression of the balance update
BalanceCondition(id) == tasks[id].balanceReceived = FALSE

\* QueryCommand on GSI_TimeOrder over the window, Limit 20
BalanceQuery(p) ==
    /\ CanStart(p)
    /\ now' \in ClockReads
    /\ \E result \in GSI_TimeOrder(now' - WINDOW_MINUTES * 60 * 1000, now', BalanceQueryLimit) :
         LET rec == [IdleProc EXCEPT !.op = "balance", !.nowMs = now']
         IN IF Candidates(result) = <<>>
            THEN Finish(p, rec, "SoftMiss/BalanceNoCandidate")
            ELSE procs' = [procs EXCEPT ![p] =
                             [rec EXCEPT !.pc = "loop", !.items = Candidates(result)]]
    /\ UNCHANGED tasks
    /\ UNCHANGED orchVars

\* a balance update that writes the new status and the times, but not the flag
BalanceFieldsStatusOnly(item, cand, nowMs) ==
    [item EXCEPT !.balanceEmailAtMs = nowMs,
                 !.status = BalanceNewStatus(cand),
                 !.updatedAtMs = nowMs]

\* the SET clause of the balance update
BalanceFields(item, cand, nowMs) ==
    [item EXCEPT !.balanceReceived = TRUE,
                 !.balanceEmailAtMs = nowMs,
                 !.status = BalanceNewStatus(cand),
                 !.updatedAtMs = nowMs,
                 !.ttl = TtlOf(OrNow(cand.createdAtMs, nowMs))]

\* one iteration of the candidate loop: the conditional UpdateCommand on the
\* next candidate; after the last candidate failed, the duplicate metric
BalanceUpdate(p) ==
    /\ procs[p].op = "balance" /\ procs[p].pc = "loop"
    /\ LET cand == Head(procs[p].items)
           rest == Tail(procs[p].items)
       IN IF BalanceCondition(cand.correlationId)
          THEN /\ tasks' = [tasks EXCEPT ![cand.correlationId] =
                                BalanceFields(@, cand, procs[p].nowMs)]
               /\ Finish(p, [procs[p] EXCEPT !.correlationId = cand.correlationId],
                         "BalanceAttached")
          ELSE /\ IF rest = <<>>
                  THEN Finish(p, [procs[p] EXCEPT !.items = rest], "SoftMiss/BalanceDuplicate")
                  ELSE procs' = [procs EXCEPT ![p].items = rest]
               /\ UNCHANGED tasks
    /\ UNCHANGED now
    /\ UNCHANGED orchVars

\* a failed query reported as an empty result
QueryErrorOutcomeNoCandidate == "SoftMiss/BalanceNoCandidate"

\* emitMetric in the catch block of the QueryCommand
QueryErrorOutcome == "Failures/GsiQueryError"

\* the QueryCommand of attachBalanceByTimeWindow throws
BalanceQueryError(p) ==
    /\ CanStart(p)
    /\ now' \in ClockReads
    /\ Finish(p, [IdleProc EXCEPT !.op = "balance", !.nowMs = now'],
              QueryErrorOutcome)
    /\ UNCHANGED tasks
    /\ UNCHANGED orchVars

\* one iteration of the candidate loop in which the UpdateCommand throws an
\* error other than ConditionalCheckFailedException: logged, next candidate
BalanceUpdateError(p) ==
    /\ procs[p].op = "balance" /\ procs[p].pc = "loop"
    /\ LET rest == Tail(procs[p].items)
       IN IF rest = <<>>
          THEN Finish(p, [procs[p] EXCEPT !.items = rest], "SoftMiss/BalanceDuplicate")
          ELSE procs' = [procs EXCEPT ![p].items = rest]
    /\ UNCHANGED tasks
    /\ UNCHANGED now
    /\ UNCHANGED orchVars

----------------------------------------------------------------------------
(* Step Functions state machine E2eMachine: one execution *)

\* SF_SUCCESS_MODE in lower case: the modes that the stack names, and a value
\* that it does not
SuccessModes == {"correlation", "balance", "and", "or"}
TotalAttemptsConfigs == 1..MaxTotalAttempts

\* the deployment when the environment sets neither variable
DefaultConfig == [totalAttempts |-> 3, successMode |-> "and"]

\* a limit that counts the retries only: the first read is not counted
PollLimitRetriesOnly == 14 + 1

PollLimit == 14
WaitForEmailSeconds == 90
WaitAndRetrySeconds == 15

\* timeoutMinutes = 5 * totalAttempts + 1
TimeoutSeconds(totalAttempts) == (5 * totalAttempts + 1) * 60

\* the state data a Pass state with parameters puts out: the parameters and
\* nothing else; totalAttempts is the deployed constant
StateData(state, attempt, pollCount, correlationId, tagSeed, messageBody) ==
    [state |-> state, status |-> "RUNNING",
     attempt |-> attempt, totalAttempts |-> config.totalAttempts,
     pollCount |-> pollCount, correlationId |-> correlationId,
     tagSeed |-> tagSeed, prep |-> Nothing, messageBody |-> messageBody,
     ddbCorr |-> Nothing, waitedSeconds |-> sm.waitedSeconds]

\* no execution
NoExecution ==
    [state |-> "none", status |-> "NONE", attempt |-> 0, totalAttempts |-> 0,
     pollCount |-> 0, correlationId |-> NoId, tagSeed |-> NoSeed, prep |-> Nothing,
     messageBody |-> Nothing, ddbCorr |-> Nothing, waitedSeconds |-> 0]

\* an execution as the schedule rule starts it
NewExecution == [NoExecution EXCEPT !.state = "InitAttempts", !.status = "RUNNING"]

Running(state) == sm.status = "RUNNING" /\ sm.state = state

\* a state whose result is discarded hands its input on
Goto(state) == sm' = [sm EXCEPT !.state = state]

Metric(namespace, name, dimensions) ==
    [Namespace |-> namespace, MetricName |-> name, Dimensions |-> dimensions]

\* a putMetricData that is delivered twice
PutMetricDataTwice(data) == metrics' = metrics \o data \o data

\* cloudwatch putMetricData
PutMetricData(data) == metrics' = metrics \o data

\* the dimensions Stage and StateMachineName
MachineDimensions == [Stage |-> "stage", StateMachineName |-> "machineName"]

\* the dimensions of AttemptFailedInfo, from the state data
AttemptDimensions ==
    [Attempt |-> sm.attempt, TotalAttempts |-> sm.totalAttempts, PollCount |-> sm.pollCount]

\* prepare-message Lambda: toBytes32HexFromString of the tag seed
TagHex32(tagSeed) == [sha256 |-> tagSeed]

\* a conversion that writes the string itself into the 32 bytes
toBytes32HexPadded(input) == IF input = NoId THEN NoHex ELSE "0xu0"

\* prepare-message Lambda: `0x${createHash('sha256').update(String(input)).digest('hex')}`
toBytes32HexFromString(input) == Sha256Hex(input)

\* prepare-message Lambda: the handler
prepareMessage(correlationId, tagSeed) ==
    LET body == [correlationIdHex32 |-> toBytes32HexFromString(correlationId),
                 tagHex32 |-> TagHex32(tagSeed)]
    IN [correlationIdHex32 |-> body.correlationIdHex32,
        tagHex32 |-> body.tagHex32,
        messageBody |-> body]

\* dynamodb getItem, ConsistentRead
GetItem(key) == IF key \in DOMAIN tasks THEN [Item |-> tasks[key]] ELSE Nothing

\* Condition.and(isPresent, booleanEquals(true)) on the two flags
corrResolved(ddbCorr) ==
    "Item" \in DOMAIN ddbCorr /\ ddbCorr.Item.correlationResolved = TRUE
balanceReceived(ddbCorr) ==
    "Item" \in DOMAIN ddbCorr /\ ddbCorr.Item.balanceReceived = TRUE

\* a Found? that is content with either flag outside the two named modes
SuccessConditionEither(successMode, ddbCorr) ==
    CASE successMode = "correlation" -> corrResolved(ddbCorr)
      [] successMode = "balance" -> balanceReceived(ddbCorr)
      [] OTHER -> corrResolved(ddbCorr) \/ balanceReceived(ddbCorr)

\* the condition of Found? for the deployed success mode
SuccessCondition(successMode, ddbCorr) ==
    CASE successMode = "correlation" -> corrResolved(ddbCorr)
      [] successMode = "balance" -> balanceReceived(ddbCorr)
      [] OTHER -> corrResolved(ddbCorr) /\ balanceReceived(ddbCorr)

\* an attempt loop that stops one attempt early
AttemptsLeftStrict(attempt, totalAttempts) == attempt < totalAttempts

\* the condition of HasAttemptsLeft?: numberLessThanEquals
AttemptsLeft(attempt, totalAttempts) == attempt <= totalAttempts

InitAttempts ==
    /\ Running("InitAttempts")
    /\ sm' = StateData("EmitHeartbeatMetric", 1, 0, NoId, NoSeed, Nothing)
    /\ UNCHANGED <<tasks, now, procs, metrics, queue, config, mail, classification, ingest, sender, chain>>

EmitHeartbeatMetric ==
    /\ Running("EmitHeartbeatMetric")
    /\ PutMetricData(<<Metric("E2E/Heartbeat", "heartbeat",
                               [Stage |-> "stage", Component |-> "statemachine"])>>)
    /\ Goto("GenerateCorrelationId")
    /\ UNCHANGED <<tasks, now, procs, queue, config, mail, classification, ingest, sender, chain>>

GenerateCorrelationId ==
    /\ Running("GenerateCorrelationId")
    /\ sm' = StateData("Initialize DDB Record", sm.attempt, 0, FreshId, NoSeed, Nothing)
    /\ UNCHANGED <<tasks, now, procs, metrics, queue, config, mail, classification, ingest, sender, chain>>

\* LambdaInvoke of init-record with correlationId, attempt and totalAttempts
\* of the state data; the execution waits for the handler to return
InitializeDdbRecord ==
    /\ Running("Initialize DDB Record")
    /\ now' \in ClockReads
    /\ LET id == sm.correlationId
           rec == [IdleProc EXCEPT !.op = "init", !.correlationId = id,
                       !.attempt = OrDefault(sm.attempt, 1),
                       !.totalAttempts = OrDefault(sm.totalAttempts, 3),
                       !.nowMs = now']
       IN tasks' = IF PutCondition(id)
                   THEN PutItem(NewItem(id, NoHex, sm.attempt, sm.totalAttempts, now'))
                   ELSE [tasks EXCEPT ![id] =
                            RetryFields(@, [rec EXCEPT !.items = <<tasks[id]>>])]
    /\ Goto("SetDefaultTagSeed")
    /\ UNCHANGED <<procs, metrics, queue, config, mail, classification, ingest, sender, chain>>

SetDefaultTagSeed ==
    /\ Running("SetDefaultTagSeed")
    /\ sm' = StateData("PrepareMessage", sm.attempt, sm.pollCount, sm.correlationId,
                       sm.attempt, Nothing)
    /\ UNCHANGED <<tasks, now, procs, metrics, queue, config, mail, classification, ingest, sender, chain>>

PrepareMessage ==
    /\ Running("PrepareMessage")
    /\ sm' = [sm EXCEPT !.state = "AdoptPreparedValues",
                        !.prep = prepareMessage(sm.correlationId, sm.tagSeed)]
    /\ UNCHANGED <<tasks, now, procs, metrics, queue, config, mail, classification, ingest, sender, chain>>

AdoptPreparedValues ==
    /\ Running("AdoptPreparedValues")
    /\ sm' = StateData("Send SQS Message", sm.attempt, sm.pollCount,
                       sm.prep.correlationIdHex32, NoSeed, sm.prep.messageBody)
    /\ UNCHANGED <<tasks, now, procs, metrics, queue, config, mail, classification, ingest, sender, chain>>

SendSqsMessage ==
    /\ Running("Send SQS Message")
    /\ queue' = Append(queue, sm.messageBody)
    /\ Goto("WaitForEmail")
    /\ UNCHANGED <<tasks, now, procs, metrics, config, mail, classification, ingest, sender, chain>>

\* a Wait state ends when its time has passed, unless the execution has
\* reached its timeout by then
Wait(state, seconds, next) ==
    /\ Running(state)
    /\ sm.waitedSeconds + seconds < TimeoutSeconds(config.totalAttempts)
    /\ sm' = [sm EXCEPT !.state = next, !.waitedSeconds = @ + seconds]
    /\ UNCHANGED <<tasks, now, procs, metrics, queue, config, mail, classification, ingest, sender, chain>>

WaitForEmail == Wait("WaitForEmail", WaitForEmailSeconds, "Check DDB Item")

CheckDdbItem ==
    /\ Running("Check DDB Item")
    /\ sm' = [sm EXCEPT !.state = "Found?", !.ddbCorr = GetItem(sm.correlationId)]
    /\ UNCHANGED <<tasks, now, procs, metrics, queue, config, mail, classification, ingest, sender, chain>>

Found ==
    /\ Running("Found?")
    /\ IF SuccessCondition(config.successMode, sm.ddbCorr)
       THEN Goto("EmitSuccessMetric")
       ELSE Goto("IncrementPollCount")
    /\ UNCHANGED <<tasks, now, procs, metrics, queue, config, mail, classification, ingest, sender, chain>>

EmitSuccessMetric ==
    /\ Running("EmitSuccessMetric")
    /\ PutMetricData(<<Metric("E2E/StateMachine", "Success", MachineDimensions)>>)
    /\ Goto("Success")
    /\ UNCHANGED <<tasks, now, procs, queue, config, mail, classification, ingest, sender, chain>>

Success ==
    /\ Running("Success")
    /\ sm' = [sm EXCEPT !.status = "SUCCEEDED"]
    /\ UNCHANGED <<tasks, now, procs, metrics, queue, config, mail, classification, ingest, sender, chain>>

IncrementPollCount ==
    /\ Running("IncrementPollCount")
    /\ sm' = StateData("PollLimitReached?", sm.attempt, sm.pollCount + 1,
                       sm.correlationId, NoSeed, sm.messageBody)
    /\ UNCHANGED <<tasks, now, procs, metrics, queue, config, mail, classification, ingest, sender, chain>>

PollLimitReached ==
    /\ Running("PollLimitReached?")
    /\ IF sm.pollCount >= PollLimit
       THEN Goto("AttemptFailed")
       ELSE Goto("WaitAndRetry")
    /\ UNCHANGED <<tasks, now, procs, metrics, queue, config, mail, classification, ingest, sender, chain>>

WaitAndRetry == Wait("WaitAndRetry", WaitAndRetrySeconds, "Check DDB Item (retry)")

CheckDdbItemRetry ==
    /\ Running("Check DDB Item (retry)")
    /\ sm' = [sm EXCEPT !.state = "Found?", !.ddbCorr = GetItem(sm.correlationId)]
    /\ UNCHANGED <<tasks, now, procs, metrics, queue, config, mail, classification, ingest, sender, chain>>

AttemptFailed ==
    /\ Running("AttemptFailed")
    /\ Goto("EmitAttemptFailedMetric")
    /\ UNCHANGED <<tasks, now, procs, metrics, queue, config, mail, classification, ingest, sender, chain>>

EmitAttemptFailedMetric ==
    /\ Running("EmitAttemptFailedMetric")
    /\ PutMetricData(<<Metric("E2E/StateMachine", "AttemptFailed", Nothing),
                       Metric("E2E/StateMachine", "AttemptFailedInfo", AttemptDimensions)>>)
    /\ Goto("IncrementAttempt")
    /\ UNCHANGED <<tasks, now, procs, queue, config, mail, classification, ingest, sender, chain>>

IncrementAttempt ==
    /\ Running("IncrementAttempt")
    /\ sm' = StateData("HasAttemptsLeft?", sm.attempt + 1, sm.pollCount, NoId, NoSeed,
                       Nothing)
    /\ UNCHANGED <<tasks, now, procs, metrics, queue, config, mail, classification, ingest, sender, chain>>

HasAttemptsLeft ==
    /\ Running("HasAttemptsLeft?")
    /\ IF AttemptsLeft(sm.attempt, config.totalAttempts)
       THEN Goto("GenerateCorrelationId")
       ELSE Goto("EmitFinalFailedMetric")
    /\ UNCHANGED <<tasks, now, procs, metrics, queue, config, mail, classification, ingest, sender, chain>>

EmitFinalFailedMetric ==
    /\ Running("EmitFinalFailedMetric")
    /\ PutMetricData(<<Metric("E2E/StateMachine", "FinalFailed", MachineDimensions),
                       Metric("E2E/StateMachine", "FinalFailedInfo",
                              [Stage |-> "stage", StateMachineName |-> "machineName",
                               Attempt |-> sm.attempt,
                               TotalAttempts |-> sm.totalAttempts,
                               PollCount |-> sm.pollCount])>>)
    /\ Goto("AllAttemptsFailed")
    /\ UNCHANGED <<tasks, now, procs, queue, config, mail, classification, ingest, sender, chain>>

\* the Fail state
AllAttemptsFailed ==
    /\ Running("AllAttemptsFailed")
    /\ sm' = [sm EXCEPT !.status = "FAILED"]
    /\ UNCHANGED <<tasks, now, procs, metrics, queue, config, mail, classification, ingest, sender, chain>>

\* the timeout of the execution: it stops in the state it is in
Timeout ==
    /\ sm.status = "RUNNING"
    /\ sm.state # "InitAttempts"
    /\ sm' = [NoExecution EXCEPT !.state = sm.state, !.status = "TIMED_OUT"]
    /\ UNCHANGED <<tasks, now, procs, metrics, queue, config, mail, classification, ingest, sender, chain>>

----------------------------------------------------------------------------
(* The reconciler on its own *)

Init ==
    /\ tasks \in InitialTables
    /\ now = StartMs
    /\ procs = [p \in Procs |-> IdleProc]
    /\ sm = NoExecution
    /\ metrics = <<>>
    /\ queue = <<>>
    /\ config = DefaultConfig
    /\ mail = NoMail
    /\ classification = Nothing
    /\ ingest = Nothing
    /\ sender = Nothing
    /\ chain = Nothing

Next ==
    \/ \E p \in Procs, id \in Ids, hexArg \in HexArgs, a \in AttemptsIn, t \in TotalAttemptsIn :
          InitPut(p, id, hexArg, a, t)
    \/ \E p \in Procs : InitGet(p)
    \/ \E p \in Procs : InitUpdate(p)
    \/ \E p \in Procs, h \in EventHexes, tx \in TxHashes : EventQuery(p, h, tx)
    \/ \E p \in Procs : EventUpdate(p)
    \/ \E p \in Procs : BalanceQuery(p)
    \/ \E p \in Procs : BalanceUpdate(p)

Spec == Init /\ [][Next]_vars

(* The reconciler on a store whose requests may fail *)

NextFaults ==
    \/ \E p \in Procs, h \in EventHexes, tx \in TxHashes : EventQuery(p, h, tx)
    \/ \E p \in Procs, h \in EventHexes, tx \in TxHashes : EventQueryError(p, h, tx)
    \/ \E p \in Procs : EventUpdate(p)
    \/ \E p \in Procs : EventUpdateError(p)
    \/ \E p \in Procs : BalanceQuery(p)
    \/ \E p \in Procs : BalanceQueryError(p)
    \/ \E p \in Procs : BalanceUpdate(p)
    \/ \E p \in Procs : BalanceUpdateError(p)

SpecFaults == Init /\ [][NextFaults]_vars

----------------------------------------------------------------------------
(* One execution of the state machine *)

\* the key that the polls of the first attempt read
FirstPollKey == Sha256Hex(IdSeq[1])

\* a Task after the event update and after the balance update of the
\* reconciler, applied at StartMs
Resolved(item) ==
    EventFields(item, [IdleProc EXCEPT !.txHash = "0xAAA",
                                       !.correlationIdHex = item.correlationIdHex,
                                       !.nowMs = StartMs, !.items = <<item>>])
Received(item) == BalanceFields(item, item, StartMs)

\* the table is empty, or holds a Task that a caller of init-record created
\* with the hash of the first id as its key, as the reconciler can have left it
OrchInitialTables ==
    {EmptyTable} \cup
    {[i \in {FirstPollKey} |-> t] :
        t \in {CreatedItem(FirstPollKey, StartMs),
               Resolved(CreatedItem(FirstPollKey, StartMs)),
               Received(CreatedItem(FirstPollKey, StartMs)),
               Received(Resolved(CreatedItem(FirstPollKey, StartMs)))}}

InitOrch ==
    /\ tasks \in OrchInitialTables
    /\ now = StartMs
    /\ procs = [p \in Procs |-> IdleProc]
    /\ sm = NewExecution
    /\ metrics = <<>>
    /\ queue = <<>>
    /\ config \in [totalAttempts : TotalAttemptsConfigs, successMode : SuccessModes]
    /\ mail = NoMail
    /\ classification = Nothing
    /\ ingest = Nothing
    /\ sender = Nothing
    /\ chain = Nothing

\* the steps of the state machine itself
Execute ==
    \/ InitAttempts
    \/ EmitHeartbeatMetric
    \/ GenerateCorrelationId
    \/ InitializeDdbRecord
    \/ SetDefaultTagSeed
    \/ PrepareMessage
    \/ AdoptPreparedValues
    \/ SendSqsMessage
    \/ WaitForEmail
    \/ CheckDdbItem
    \/ Found
    \/ EmitSuccessMetric
    \/ Success
    \/ IncrementPollCount
    \/ PollLimitReached
    \/ WaitAndRetry
    \/ CheckDdbItemRetry
    \/ AttemptFailed
    \/ EmitAttemptFailedMetric
    \/ IncrementAttempt
    \/ HasAttemptsLeft
    \/ EmitFinalFailedMetric
    \/ AllAttemptsFailed

NextOrch ==
    \/ Execute
    \/ Timeout

\* Step Functions runs every state of an execution that it has entered
SpecOrch == InitOrch /\ [][NextOrch]_vars /\ WF_vars(Execute)

----------------------------------------------------------------------------
(* One invocation of the reconciler on a table that earlier executions and
   mails have filled *)

MaxFillers == 11     \* Tasks of other probes in a long table

\* ids of the Tasks of other probes.  Their hashes are of no interest: the
\* model gives them all the one name that Sha256Hex has left, which no
\* notification carries
FillerIds ==
    <<"f01", "f02", "f03", "f04", "f05", "f06", "f07",
      "f08", "f09", "f10", "f11", "f12", "f13", "f14">>

\* the table holds two or three Tasks, each created at StartMs or SeedGapMs
\* earlier, pending or with its event notification applied; or it holds the
\* pending Task of the first id and MaxFillers pending Tasks of other probes,
\* all created in different milliseconds, j of them after that Task
InitSeeded ==
    /\ tasks \in
          UNION {{[i \in {IdSeq[k] : k \in 1..n} |->
                      IF e[i] THEN Resolved(CreatedItem(i, StartMs - a[i] * SeedGapMs))
                      ELSE CreatedItem(i, StartMs - a[i] * SeedGapMs)] :
                    a \in [{IdSeq[k] : k \in 1..n} -> {0, 1}],
                    e \in [{IdSeq[k] : k \in 1..n} -> BOOLEAN]} : n \in 2..3}
          \cup
          {[i \in {IdSeq[1]} \cup {FillerIds[k] : k \in 1..MaxFillers} |->
               IF i = IdSeq[1] THEN CreatedItem(i, StartMs - 2 * j - 1)
               ELSE CreatedItem(i, StartMs - 2 * (CHOOSE k \in 1..MaxFillers :
                                                     FillerIds[k] = i))] :
             j \in 0..MaxFillers}
    /\ now = StartMs
    /\ procs = [p \in Procs |-> IdleProc]
    /\ sm = NoExecution
    /\ metrics = <<>>
    /\ queue = <<>>
    /\ config = DefaultConfig
    /\ mail = NoMail
    /\ classification = Nothing
    /\ ingest = Nothing
    /\ sender = Nothing
    /\ chain = Nothing

NextSeeded ==
    \/ \E h \in EventHexes, tx \in TxHashes : EventQuery(1, h, tx)
    \/ EventUpdate(1)
    \/ BalanceQuery(1)
    \/ BalanceUpdate(1)

SpecSeeded == InitSeeded /\ [][NextSeeded]_vars

----------------------------------------------------------------------------

(* One execution every state of which completes before the timeout of the
   execution *)

SpecRun == InitOrch /\ [][Execute]_vars /\ WF_vars(Execute)

----------------------------------------------------------------------------

(* One execution of the state machine in the default success mode, with the
   reconciler processing mails while it runs *)

\* the table is empty, or holds a pending Task that a caller of init-record
\* created with the hash of the first id as its key
E2EInitialTables ==
    {EmptyTable, [i \in {FirstPollKey} |-> CreatedItem(FirstPollKey, StartMs)]}

\* Event notifications carry the hash of the first attempt's id or the
\* correlationIdHex of the Task keyed by that hash
E2EEventHexes == {Sha256Hex(IdSeq[1]), Sha256Hex(FirstPollKey)}
E2ETxHashes == {"0xAAA"}

InitE2E ==
    /\ tasks \in E2EInitialTables
    /\ now = StartMs
    /\ procs = [p \in Procs |-> IdleProc]
    /\ sm = NewExecution
    /\ metrics = <<>>
    /\ queue = <<>>
    /\ config \in [totalAttempts : TotalAttemptsConfigs,
                    successMode : {DefaultConfig.successMode}]
    /\ mail = NoMail
    /\ classification = Nothing
    /\ ingest = Nothing
    /\ sender = Nothing
    /\ chain = Nothing

NextE2E ==
    \/ Execute
    \/ Timeout
    \/ \E p \in Procs, h \in E2EEventHexes, tx \in E2ETxHashes : EventQuery(p, h, tx)
    \/ \E p \in Procs : EventUpdate(p)
    \/ \E p \in Procs : BalanceQuery(p)
    \/ \E p \in Procs : BalanceUpdate(p)

SpecE2E == InitE2E /\ [][NextE2E]_vars /\ WF_vars(Execute)

----------------------------------------------------------------------------
(* email-ingest Lambda: classifyEmail *)

(* A text is a sequence of lexemes written one after the other with nothing
   between them.  "0xAAA" and "0xCCC" stand for 0x followed by 64 hex digits,
   "AAA" for 64 hex digits without the 0x prefix, "TxID" for the first of the
   labels of labelPatterns (the other seven have the same shape), " " for a
   run of white space, "JPW", "JPB" and "JPN" for the Japanese words for
   wallet, balance and notice.  The text carries no markup and the subject is
   the decoded Subject header. *)
MaxTextLen == 4

Lexemes ==
    {"https://", "/tx/", "0xAAA", "0xCCC", "AAA", "TxID", ":", " ",
     "Wallet", "balance", "JPW", "JPB", "JPN"}

Texts == UNION {[1..n -> Lexemes] : n \in 0..MaxTextLen}

Subjects == {<<>>, <<"Wallet">>, <<"Wallet", " ", "balance">>, <<"JPB", "JPN">>}

Mails == [subject : Subjects, text : Texts]

\* \s
IsWhite(t) == t = " "

\* 0x[a-fA-F0-9]{64}
IsTxHash(t) == t \in {"0xAAA", "0xCCC"}

Least(S) == CHOOSE x \in S : \A y \in S : x <= y

\* the hash that the fallback to any 0x hash of the text would return
extractAnyTxHash(text) ==
    IF \E k \in 1..Len(text) : IsTxHash(text[k])
    THEN text[Least({k \in 1..Len(text) : IsTxHash(text[k])})]
    ELSE NoTx

\* /https?:\/\/\S*?\/tx\/0x[a-fA-F0-9]{64}/ from the scheme at i: the
\* positions of "/tx/" at which a match can end
UrlEnds(text, i) ==
    {j \in (i + 1)..(Len(text) - 1) :
        /\ text[j] = "/tx/"
        /\ IsTxHash(text[j + 1])
        /\ \A k \in (i + 1)..(j - 1) : ~IsWhite(text[k])}

UrlStarts(text) ==
    {i \in 1..Len(text) : text[i] = "https://" /\ UrlEnds(text, i) # {}}

\* url[0]: the leftmost match, \S*? as short as possible
UrlMatch(text) ==
    LET i == Least(UrlStarts(text))
    IN SubSeq(text, i, Least(UrlEnds(text, i)) + 1)

RECURSIVE SkipWhite(_, _)
\* \s* from position k
SkipWhite(text, k) ==
    IF k <= Len(text) /\ IsWhite(text[k]) THEN SkipWhite(text, k + 1) ELSE k

\* /TxID\s*[:：]\s*(0x[a-fA-F0-9]{64})/ matched at position i: the position
\* of the captured hash, 0 when there is no match at i
LabelCapture(text, i) ==
    LET c == SkipWhite(text, i + 1)
        h == SkipWhite(text, c + 1)
    IN IF /\ text[i] = "TxID"
          /\ c <= Len(text) /\ text[c] = ":"
          /\ h <= Len(text) /\ IsTxHash(text[h])
       THEN h
       ELSE 0

LabelStarts(text) == {i \in 1..Len(text) : LabelCapture(text, i) # 0}

\* the patterns tried the other way round: the labelled fields before the URL
extractLabelFirst(text) ==
    IF text = <<>> THEN NoTx
    ELSE IF LabelStarts(text) # {} THEN text[LabelCapture(text, Least(LabelStarts(text)))]
    ELSE IF UrlStarts(text) # {} THEN extractAnyTxHash(UrlMatch(text))
    ELSE NoTx

extractTxHashFromText(text) ==
    IF text = <<>> THEN NoTx
    ELSE IF UrlStarts(text) # {} THEN extractAnyTxHash(UrlMatch(text))
    ELSE IF LabelStarts(text) # {} THEN text[LabelCapture(text, Least(LabelStarts(text)))]
    ELSE NoTx

\* toLowerCase
Lower(s) == [k \in DOMAIN s |-> IF s[k] = "Wallet" THEN "wallet" ELSE s[k]]

RECURSIVE Collapse(_)
\* replace(/\s+/g, ' ')
Collapse(s) ==
    IF Len(s) < 2 THEN s
    ELSE IF IsWhite(s[1]) /\ IsWhite(s[2]) THEN Collapse(Tail(s))
    ELSE <<s[1]>> \o Collapse(Tail(s))

Includes(s, t) == \E k \in 1..Len(s) : s[k] = t

\* includes of the two words written together
IncludesPair(s, a, b) == \E k \in 1..(Len(s) - 1) : s[k] = a /\ s[k + 1] = b

\* /a\s*.*\s*b/
TestThen(s, a, b) == \E i, j \in 1..Len(s) : i < j /\ s[i] = a /\ s[j] = b

\* the keyword rules that isBalanceMail applies to the subject and to the body
KeywordRules(s) ==
    \/ Includes(s, "wallet") /\ Includes(s, "balance")
    \/ IncludesPair(s, "JPW", "JPB")
    \/ TestThen(s, "JPW", "JPB")
    \/ TestThen(s, "JPB", "JPW")
    \/ IncludesPair(s, "JPB", "JPN")

isBalanceMail(text, subject) ==
    \/ subject # <<>> /\ KeywordRules(Lower(subject))
    \/ KeywordRules(Collapse(Lower(text)))

classifyEmail(text, subject) ==
    LET txHash == extractTxHashFromText(text)
    IN IF txHash # NoTx THEN [type |-> "event", txHash |-> txHash]
       ELSE IF isBalanceMail(text, subject) THEN [type |-> "balance"]
       ELSE [type |-> "other"]

\* const classification = classifyEmail(text, raw)
Classify ==
    /\ classification = Nothing
    /\ classification' = classifyEmail(mail.text, mail.subject)
    /\ UNCHANGED <<tasks, now, procs, sm, metrics, queue, config, mail, ingest, sender, chain>>

InitClassify ==
    /\ tasks = EmptyTable
    /\ now = StartMs
    /\ procs = [p \in Procs |-> IdleProc]
    /\ sm = NoExecution
    /\ metrics = <<>>
    /\ queue = <<>>
    /\ config = DefaultConfig
    /\ mail \in Mails
    /\ classification = Nothing
    /\ ingest = Nothing
    /\ sender = Nothing
    /\ chain = Nothing

NextClassify == Classify

SpecClassify == InitClassify /\ [][NextClassify]_vars

----------------------------------------------------------------------------
(* email-ingest Lambda: fetchReceipt, extractCorrelationIdFromLogs, handler *)

(* One invocation with its environment set (RESULTS_TABLE, EXPLORER_API_URL,
   CONTRACT_ADDRESS), processing its records one after the other; no other
   invocation runs meanwhile and the invocation is short, so that Date.now()
   is the same at every read.  ingest.calls lists the requests the invocation
   made and ingest.emitted the metrics it emitted, each with the index of the
   record that it was made for. *)
MaxRecords == 2
MaxLogs == 2

\* process.env.CONTRACT_ADDRESS, lower case
CONTRACT_ADDRESS == "0xc0ffee"

\* toLowerCase of a log's address
LowerAddress(a) == IF a = "0xC0FFEE" THEN "0xc0ffee" ELSE a

\* /^0x[0-9a-fA-F]{64}$/
IsHex32(t) == t \in Hexes \cup TxHashes \cup {"0xsig"}

\* logs of the monitored contract and of another one; topics of an event
\* with an indexed correlationId, without one, and with a short second topic
Logs ==
    {[address |-> "0xC0FFEE", topics |-> <<"0xsig", Sha256Hex("u1")>>],
     [address |-> "0xC0FFEE", topics |-> <<"0xsig", Sha256Hex("u2")>>],
     [address |-> "0xdead", topics |-> <<"0xsig", Sha256Hex("u2")>>],
     [address |-> "0xC0FFEE", topics |-> <<"0xsig">>],
     [address |-> "0xC0FFEE", topics |-> <<"0xsig", "0x12">>]}

\* body.result of eth_getTransactionReceipt: with logs, or without the array
Receipts ==
    {[logs |-> l] : l \in UNION {[1..n -> Logs] : n \in 0..MaxLogs}}
        \cup {[status |-> "0x1"]}

\* the first monitored log in any order but the receipt's
extractFromLastLog(receipt) ==
    IF receipt = Nothing \/ "logs" \notin DOMAIN receipt THEN NoHex
    ELSE LET targetLogs ==
                 SelectSeq(receipt.logs, LAMBDA l : LowerAddress(l.address) = CONTRACT_ADDRESS)
             hits == {k \in 1..Len(targetLogs) :
                         /\ Len(targetLogs[k].topics) >= 2
                         /\ IsHex32(targetLogs[k].topics[2])}
         IN IF hits = {} THEN NoHex
            ELSE targetLogs[CHOOSE k \in hits : \A j \in hits : j <= k].topics[2]

\* topics[1] of the first log of CONTRACT_ADDRESS that has one of the hash
\* shape; NoHex for null
extractCorrelationIdFromLogs(receipt) ==
    IF receipt = Nothing \/ "logs" \notin DOMAIN receipt THEN NoHex
    ELSE LET targetLogs ==
                 SelectSeq(receipt.logs, LAMBDA l : LowerAddress(l.address) = CONTRACT_ADDRESS)
             hits == {k \in 1..Len(targetLogs) :
                         /\ Len(targetLogs[k].topics) >= 2
                         /\ IsHex32(targetLogs[k].topics[2])}
         IN IF hits = {} THEN NoHex ELSE targetLogs[Least(hits)].topics[2]

\* a request made for the record in hand, whether it succeeded, what it returned
Call(name, ok, value) == [rec |-> ingest.i, call |-> name, ok |-> ok, value |-> value]

\* emitMetric for the record in hand
Emit(class, reason) == [rec |-> ingest.i, metric |-> class, reason |-> reason]

\* the requests of the records that are done, without what they returned
Returned(calls) == [k \in DOMAIN calls |-> [calls[k] EXCEPT !.value = Nothing]]

\* a handler that gives up the remaining records at the first failure
AbortOnFailure(callsMade, metricsEmitted) ==
    ingest' = [ingest EXCEPT !.i = IF \E k \in 1..Len(metricsEmitted) :
                                         metricsEmitted[k].metric = "Failures"
                                   THEN Len(ingest.records) + 1
                                   ELSE @ + 1,
                             !.pc = "loop",
                             !.calls = Returned(@ \o callsMade),
                             !.emitted = @ \o metricsEmitted]

\* continue: on to the next record; the receipt of the record that is done
\* stays on view until the next object is read
Continue(callsMade, metricsEmitted) ==
    ingest' = [ingest EXCEPT !.i = @ + 1, !.pc = "loop",
                             !.calls = Returned(@ \o callsMade),
                             !.emitted = @ \o metricsEmitted]

\* fetchReceiptFromExplorer after the requests in tried: it returns a receipt
\* that the chain holds for the transaction of the record in hand, or throws
ViaExplorer(tried) ==
    {[calls |-> Append(tried, Call("explorer", TRUE, r)), receipt |-> r] : r \in ingest.records[ingest.i].receipts}
        \cup {[calls |-> Append(tried, Call("explorer", FALSE, Nothing)), receipt |-> Nothing]}

\* a fetchReceipt that asks the explorer first
fetchReceiptExplorerFirst ==
    {[calls |-> <<Call("explorer", TRUE, r)>>, receipt |-> r] : r \in ingest.records[ingest.i].receipts}
        \cup {[calls |-> <<Call("explorer", FALSE, Nothing), Call("alchemy", TRUE, r)>>,
               receipt |-> r] : r \in ingest.records[ingest.i].receipts}
        \cup {[calls |-> <<Call("explorer", FALSE, Nothing), Call("alchemy", FALSE, Nothing)>>,
               receipt |-> Nothing]}

\* the runs of fetchReceipt: the requests made and the receipt returned,
\* Nothing when it throws
fetchReceipt ==
    IF ingest.alchemy
    THEN {[calls |-> <<Call("alchemy", TRUE, r)>>, receipt |-> r] : r \in ingest.records[ingest.i].receipts}
            \cup ViaExplorer(<<Call("alchemy", FALSE, Nothing)>>)
    ELSE ViaExplorer(<<>>)

\* s3.send(new GetObjectCommand) and decodeQuotedPrintable for the next
\* record; a read error is caught by the catch of the loop body
GetObject ==
    /\ ingest # Nothing
    /\ ingest.pc = "loop"
    /\ ingest.i <= Len(ingest.records)
    /\ IF ingest.records[ingest.i].readable
       THEN /\ mail' = ingest.records[ingest.i].mail
            /\ classification' = Nothing
            /\ ingest' = [ingest EXCEPT !.pc = "classify", !.receipt = Nothing,
                             !.calls = Append(@, Call("s3.GetObject", TRUE, Nothing))]
       ELSE /\ Continue(<<Call("s3.GetObject", FALSE, Nothing)>>,
                        <<Emit("Failures", "UnexpectedError")>>)
            /\ UNCHANGED <<mail, classification>>
    /\ UNCHANGED <<tasks, now, procs, sm, metrics, queue, config, sender, chain>>

\* const classification = classifyEmail(text, raw)
ClassifyRecord ==
    /\ ingest # Nothing
    /\ ingest.pc = "classify"
    /\ classification' = classifyEmail(mail.text, mail.subject)
    /\ ingest' = [ingest EXCEPT !.pc = "dispatch"]
    /\ UNCHANGED <<tasks, now, procs, sm, metrics, queue, config, mail, sender, chain>>

\* classification.type === 'other': continue; text and raw are not read
\* again once the record is dispatched
SkipOther ==
    /\ ingest # Nothing
    /\ ingest.pc = "dispatch"
    /\ classification.type = "other"
    /\ Continue(<<>>, <<>>)
    /\ mail' = NoMail
    /\ UNCHANGED <<tasks, now, procs, sm, metrics, queue, config, classification,
                   sender, chain>>

\* classification.type === 'balance': attachBalanceByTimeWindow from its query
\* to its return, then continue
AttachBalance ==
    /\ ingest # Nothing
    /\ ingest.pc = "dispatch"
    /\ classification.type = "balance"
    /\ \/ /\ Continue(<<Call("ddb.Query", FALSE, Nothing)>>, <<Emit("Failures", "GsiQueryError")>>)
          /\ UNCHANGED tasks
       \/ \E result \in GSI_TimeOrder(now - WINDOW_MINUTES * 60 * 1000, now, BalanceQueryLimit) :
            LET cands == Candidates(result)
                query == <<Call("ddb.Query", TRUE, Nothing)>>
                \* the first k updates of the candidate loop fail with a store error
                FailedUpdates(k) == [j \in 1..k |-> Call("ddb.Update", FALSE, Nothing)]
            IN IF cands = <<>>
               THEN /\ Continue(query, <<Emit("SoftMiss", "BalanceNoCandidate")>>)
                    /\ UNCHANGED tasks
               ELSE \E k \in 0..Len(cands) :
                      IF k < Len(cands)
                      THEN /\ tasks' = [tasks EXCEPT ![cands[k + 1].correlationId] =
                                           BalanceFields(@, cands[k + 1], now)]
                           /\ Continue(query \o FailedUpdates(k)
                                          \o <<Call("ddb.Update", TRUE, Nothing)>>, <<>>)
                      ELSE /\ Continue(query \o FailedUpdates(k),
                                       <<Emit("SoftMiss", "BalanceDuplicate")>>)
                           /\ UNCHANGED tasks
    /\ mail' = NoMail
    /\ UNCHANGED <<now, procs, sm, metrics, queue, config, classification, sender, chain>>

\* classification.type === 'event': fetchReceipt(txHash); an error of the
\* last path tried is counted and the record is left
FetchReceipt ==
    /\ ingest # Nothing
    /\ ingest.pc = "dispatch"
    /\ classification.type = "event"
    /\ \E run \in fetchReceipt :
         IF run.receipt = Nothing
         THEN Continue(run.calls, <<Emit("Failures", "ExplorerError")>>)
         ELSE ingest' = [ingest EXCEPT !.pc = "logs", !.receipt = run.receipt,
                                       !.calls = @ \o run.calls]
    /\ mail' = NoMail
    /\ UNCHANGED <<tasks, now, procs, sm, metrics, queue, config, classification,
                   sender, chain>>

\* extractCorrelationIdFromLogs(receipt), then upsertEventRecord from its
\* query to its return, then continue
ExtractAndUpsert ==
    /\ ingest # Nothing
    /\ ingest.pc = "logs"
    /\ LET h == extractCorrelationIdFromLogs(ingest.receipt)
           rec == [IdleProc EXCEPT !.op = "event", !.correlationIdHex = h,
                                   !.txHash = classification.txHash, !.nowMs = now]
       IN IF h = NoHex
          THEN /\ Continue(<<>>, <<Emit("SoftMiss", "CorrelationIdNotFound")>>)
               /\ UNCHANGED tasks
          ELSE \/ /\ Continue(<<Call("ddb.Query", FALSE, Nothing)>>,
                              <<Emit("Failures", "DdbError")>>)
                  /\ UNCHANGED tasks
               \/ \E result \in GSI_TimeOrder(0, now, EventQueryLimit) :
                    LET Items == SelectSeq(result, LAMBDA t : EventFilter(t, h))
                        query == <<Call("ddb.Query", TRUE, Nothing)>>
                    IN IF Items = <<>>
                       THEN /\ Continue(query, <<Emit("SoftMiss", "EventRecordNotFound")>>)
                            /\ UNCHANGED tasks
                       ELSE \/ /\ Continue(Append(query, Call("ddb.Update", FALSE, Nothing)),
                                           <<Emit("Failures", "DdbError")>>)
                               /\ UNCHANGED tasks
                            \/ /\ tasks' = [tasks EXCEPT ![Items[1].correlationId] =
                                              EventFields(@, [rec EXCEPT !.items = <<Items[1]>>])]
                               /\ Continue(Append(query, Call("ddb.Update", TRUE, Nothing)), <<>>)
    /\ UNCHANGED <<now, procs, sm, metrics, queue, config, mail, classification, sender, chain>>

\* return { ok: true } after the loop; with no record, processed: 0
ReturnOk ==
    /\ ingest # Nothing
    /\ ingest.pc = "loop"
    /\ ingest.i > Len(ingest.records)
    /\ ingest' = [ingest EXCEPT !.pc = "returned",
                     !.result = IF ingest.records = <<>>
                                THEN [ok |-> TRUE, processed |-> 0]
                                ELSE [ok |-> TRUE]]
    /\ UNCHANGED <<tasks, now, procs, sm, metrics, queue, config, mail, classification,
                   sender, chain>>

\* what an invocation starts from: extractS3Events(event) and whether
\* RPC_ALCHEMY_URL is set.  Either up to MaxRecords deliveries (an event mail,
\* a balance mail, another mail, an object that cannot be read) with a table
\* of two Tasks; or one record with any mail of fewer lexemes (bare hex and
\* token names left to the subject) or with a URL and a label side by side;
\* or one event mail whose transaction has any receipt.  Elsewhere the
\* receipts of a transaction have one log at most
IngestInputs ==
    LET BriefReceipts == {r \in Receipts : "logs" \in DOMAIN r => Len(r.logs) <= 1}
        Deliveries ==
            {[readable |-> TRUE, receipts |-> BriefReceipts,
              mail |-> [subject |-> <<>>, text |-> <<"https://", "/tx/", "0xAAA">>]],
             [readable |-> TRUE, receipts |-> {},
              mail |-> [subject |-> <<"Wallet", " ", "balance">>, text |-> <<>>]],
             [readable |-> TRUE, receipts |-> {},
              mail |-> [subject |-> <<>>, text |-> <<"AAA">>]],
             [readable |-> FALSE, receipts |-> {}, mail |-> NoMail]}
        PriorityTexts ==
            {<<"TxID", ":", "0xCCC", "https://", "/tx/", "0xAAA">>,
             <<"https://", "/tx/", "0xAAA", "TxID", ":", "0xCCC">>,
             <<"TxID", ":", "0xCCC", "TxID", ":", "0xAAA">>,
             <<"https://", "/tx/", "0xCCC", "https://", "/tx/", "0xAAA">>,
             <<"https://", "0xCCC", "/tx/", "0xAAA">>}
        Words == Lexemes \ {"AAA", "JPW", "JPB", "JPN"}
        ShortTexts == UNION {[1..n -> Words] : n \in 0..(MaxTextLen - 1)}
        OneTask == [i \in {"u1"} |-> CreatedItem("u1", StartMs)]
    IN {[records |-> r, alchemy |-> a,
         tasks |-> [i \in {"u1", "u2"} |->
                       CreatedItem(i, IF i = "u1" THEN StartMs - SeedGapMs ELSE StartMs)]] :
            r \in UNION {[1..n -> Deliveries] : n \in 0..MaxRecords}, a \in BOOLEAN}
          \cup {[records |-> <<[readable |-> TRUE, receipts |-> BriefReceipts,
                                mail |-> [subject |-> sub, text |-> t]]>>,
                  alchemy |-> TRUE, tasks |-> OneTask] :
                  sub \in Subjects, t \in ShortTexts \cup PriorityTexts}
          \cup {[records |-> <<[readable |-> TRUE, receipts |-> Receipts,
                                mail |-> [subject |-> <<>>,
                                          text |-> <<"TxID", ":", "0xCCC">>]]>>,
                  alchemy |-> a, tasks |-> OneTask] : a \in BOOLEAN}

InitIngest ==
    /\ \E in \in IngestInputs :
          /\ tasks = in.tasks
          /\ ingest = [records |-> in.records, alchemy |-> in.alchemy, i |-> 1,
                       pc |-> "loop", receipt |-> Nothing, calls |-> <<>>,
                       emitted |-> <<>>, result |-> Nothing]
    /\ now = StartMs
    /\ procs = [p \in Procs |-> IdleProc]
    /\ sm = NoExecution
    /\ metrics = <<>>
    /\ queue = <<>>
    /\ config = DefaultConfig
    /\ mail = NoMail
    /\ classification = Nothing
    /\ sender = Nothing
    /\ chain = Nothing

NextIngest ==
    \/ GetObject
    \/ ClassifyRecord
    \/ SkipOther
    \/ AttachBalance
    \/ FetchReceipt
    \/ ExtractAndUpsert
    \/ ReturnOk

SpecIngest == InitIngest /\ [][NextIngest]_vars

\* every await of the handler settles: an invocation that can take a step
\* takes one
FairSpecIngest == SpecIngest /\ WF_vars(NextIngest)

----------------------------------------------------------------------------
(* tx-sender Lambda: MessageValidator.validateMessage *)

(* A string is described by what the pattern of the validator looks at: what
   it starts with, how many characters follow, and what those characters
   are.  The empty string has no prefix and no characters. *)
Hex32Digits == 64

\* JSON.parse(record.body): a value that is no object, null, or an object
\* whose fields correlationIdHex32 and tagHex32 are absent, a number or a string
MessageBodies ==
    LET Strings == [type : {"string"}, prefix : {"0x", "0X", ""},
                    digits : {0, Hex32Digits - 1, Hex32Digits, Hex32Digits + 1},
                    chars : {"0-9a-f", "0-9A-F", "other"}]
        Values == Strings \cup {[type |-> "number"]}
        Fields == {"correlationIdHex32", "tagHex32"}
    IN {[type |-> t] : t \in {"number", "string", "null"}}
          \cup {[type |-> "object", fields |-> f] :
                  f \in UNION {[d -> Values] : d \in SUBSET Fields}}

\* a validator that looks at the tag before the correlation id
validateTagFirst(messageBody) ==
    IF messageBody.type # "object"
    THEN [success |-> FALSE, error |-> "Message body must be a JSON object"]
    ELSE LET Field(name) ==
                 IF name \in DOMAIN messageBody.fields /\ messageBody.fields[name].type = "string"
                 THEN messageBody.fields[name]
                 ELSE [type |-> "string", prefix |-> "", digits |-> 0, chars |-> "0-9a-f"]
             Test(str) ==
                 str.prefix = "0x" /\ str.digits = Hex32Digits /\ str.chars \in {"0-9a-f", "0-9A-F"}
         IN IF ~Test(Field("tagHex32"))
            THEN [success |-> FALSE, error |-> "Invalid tagHex32 (must be 0x + 64 hex chars)"]
            ELSE IF ~Test(Field("correlationIdHex32"))
            THEN [success |-> FALSE,
                  error |-> "Invalid correlationIdHex32 (must be 0x + 64 hex chars)"]
            ELSE [success |-> TRUE, error |-> "null",
                  params |-> [correlationIdHex32 |-> Field("correlationIdHex32"),
                              tagHex32 |-> Field("tagHex32")]]

\* MessageValidator.validateMessage; Field is the string that the validator
\* takes for a field ('' unless it is a string), Test is
\* /^0x[0-9a-fA-F]{64}$/.test, which the empty string fails as well
validateMessage(messageBody) ==
    IF messageBody.type # "object"
    THEN [success |-> FALSE, error |-> "Message body must be a JSON object"]
    ELSE LET Field(name) ==
                 IF name \in DOMAIN messageBody.fields /\ messageBody.fields[name].type = "string"
                 THEN messageBody.fields[name]
                 ELSE [type |-> "string", prefix |-> "", digits |-> 0, chars |-> "0-9a-f"]
             Test(str) ==
                 str.prefix = "0x" /\ str.digits = Hex32Digits /\ str.chars \in {"0-9a-f", "0-9A-F"}
         IN IF ~Test(Field("correlationIdHex32"))
            THEN [success |-> FALSE,
                  error |-> "Invalid correlationIdHex32 (must be 0x + 64 hex chars)"]
            ELSE IF ~Test(Field("tagHex32"))
            THEN [success |-> FALSE, error |-> "Invalid tagHex32 (must be 0x + 64 hex chars)"]
            ELSE [success |-> TRUE, error |-> "null",
                  params |-> [correlationIdHex32 |-> Field("correlationIdHex32"),
                              tagHex32 |-> Field("tagHex32")]]

\* const validation = MessageValidator.validateMessage(messageBody)
ValidateMessage ==
    /\ sender # Nothing
    /\ sender.pc = "validate"
    /\ sender' = [sender EXCEPT !.pc = "validated", !.validation = validateMessage(sender.body)]
    /\ UNCHANGED <<tasks, now, procs, sm, metrics, queue, config, mail, classification,
                   ingest, chain>>

InitSender ==
    /\ sender \in [body : MessageBodies, pc : {"validate"}, validation : {Nothing}]
    /\ tasks = EmptyTable
    /\ now = StartMs
    /\ procs = [p \in Procs |-> IdleProc]
    /\ sm = NoExecution
    /\ metrics = <<>>
    /\ queue = <<>>
    /\ config = DefaultConfig
    /\ mail = NoMail
    /\ classification = Nothing
    /\ ingest = Nothing
    /\ chain = Nothing

SpecSender == InitSender /\ [][ValidateMessage]_vars

----------------------------------------------------------------------------
(* tx-sender Lambda: the handler on a batch of SQS records *)

(* A message text is a sequence of fragments; includes and startsWith look
   for a fragment.  sender holds the records of the event, the index of the
   record in hand, the ProcessingTracker and the value returned. *)
MaxBatch == 2

\* String.prototype.toLowerCase on a fragment
ToLowerCase(f) ==
    CASE f = "Nonce" -> "nonce"
      [] f = "Fireblocks" -> "fireblocks"
      [] OTHER -> f

\* `${prefix}: ${errorMessage}`, or errorMessage when there is no prefix
FullErrorMessage(errorMessage, prefix) ==
    IF prefix = "" THEN errorMessage ELSE <<prefix, ": ">> \o errorMessage

\* MessageValidator.determineErrorType
determineErrorType(errorMessage) ==
    LET transactionErrorPatterns ==
            {"nonce", "gas", "underpriced", "timeout", "rejected", "reverted", "dropped",
             "fireblocks", "network", "connection", "rpc", "rate limit", "exceeded"}
        isTransactionError ==
            \E k \in 1..Len(errorMessage) :
                ToLowerCase(errorMessage[k]) \in transactionErrorPatterns
        startsWithValidation ==
            \/ Len(errorMessage) >= 1 /\ errorMessage[1] = "Validation error:"
            \/ Len(errorMessage) >= 2 /\ errorMessage[1] = "Validation error"
                                      /\ errorMessage[2] = ": "
    IN IF \/ startsWithValidation
          \/ Includes(errorMessage, "required parameter:")
          \/ Includes(errorMessage, "must be an")
          \/ Includes(errorMessage, "Invalid hash length")
       THEN "validation"
       ELSE IF isTransactionError THEN "transaction"
       ELSE "system"

\* a retry rule that sends every failed message back to the queue
shouldRetryAll(errorType) == errorType \in {"validation", "transaction", "system"}

\* MessageValidator.shouldRetry
shouldRetry(errorType) == errorType = "transaction" \/ errorType = "system"

\* new ProcessingTracker(totalMessages)
ProcessingTracker(totalMessages) ==
    [processedMessageIds |-> {}, batchItemFailures |-> <<>>, results |-> <<>>,
     stats |-> [total |-> totalMessages, success |-> 0, validationErrors |-> 0,
                transactionErrors |-> 0, systemErrors |-> 0]]

\* tracker.recordSuccess(messageId, txResult)
recordSuccess(tracker, messageId, txResult) ==
    [tracker EXCEPT
        !.stats.success = @ + 1,
        !.results = Append(@, [messageId |-> messageId, status |-> "success",
                               transactionHash |-> txResult.transactionHash,
                               blockNumber |-> txResult.blockNumber]),
        !.processedMessageIds = @ \cup {messageId}]

\* tracker.recordError(messageId, errorMessage, prefix)
recordError(tracker, messageId, errorMessage, prefix) ==
    LET fullErrorMessage == FullErrorMessage(errorMessage, prefix)
        errorType == determineErrorType(fullErrorMessage)
        willRetry == shouldRetry(errorType)
    IN [tracker EXCEPT
           !.stats.validationErrors = IF errorType = "validation" THEN @ + 1 ELSE @,
           !.stats.transactionErrors = IF errorType = "transaction" THEN @ + 1 ELSE @,
           !.stats.systemErrors =
               IF errorType \notin {"validation", "transaction"} THEN @ + 1 ELSE @,
           !.processedMessageIds =
               IF errorType = "validation" THEN @ \cup {messageId} ELSE @,
           !.results = Append(@, [messageId |-> messageId, status |-> "error",
                                  errorType |-> errorType, error |-> fullErrorMessage,
                                  willRetry |-> willRetry]),
           !.batchItemFailures =
               IF willRetry THEN Append(@, [itemIdentifier |-> messageId]) ELSE @]

\* what sendPing throws: Error(shortMessage or message of the provider's error)
PingErrors ==
    {<<"replacement fee too low">>,
     <<"Nonce", " has already been used">>,
     <<"execution ", "reverted">>,
     <<"value ", "must be an", " integer">>,
     <<"Invalid hash length">>,
     <<"missing ", "required parameter:", " to">>,
     <<"Validation error:", " bad address">>,
     <<"Fireblocks", " request ", "rejected", ": signer ", "must be an", " owner">>}

\* what getAllParameters and initialize throw
InitializeErrors ==
    {<<"Missing Fireblocks credentials (apiKey/apiSecret/vaultAccountId)">>,
     <<"Parameter not found">>,
     <<"could not detect ", "network">>,
     <<"vault id ", "must be an", " integer">>}

\* record.body: a text that JSON.parse rejects with this message, or the text
\* of a value: a well-formed probe message, one without its tag, null, a number
RecordBodies ==
    {[parses |-> FALSE, error |-> e] :
        e \in {<<"Unexpected token">>,
               <<"Unexpected token ", "gas", " is not valid JSON">>}}
    \cup
    {[parses |-> TRUE, value |-> b] :
        b \in {v \in MessageBodies :
                 \/ v.type \in {"null", "number"}
                 \/ /\ v.type = "object"
                    /\ DOMAIN v.fields \in {{"correlationIdHex32"},
                                            {"correlationIdHex32", "tagHex32"}}
                    /\ \A n \in DOMAIN v.fields :
                          v.fields[n] = [type |-> "string", prefix |-> "0x",
                                         digits |-> Hex32Digits, chars |-> "0-9a-f"]}}

\* messageId of the records of a batch, in the order of the batch
MessageIds == <<"m1", "m2", "m3", "m4">>

\* the handler up to the loop: no records, or the parameters are read and
\* the connection is set up
Initialize ==
    /\ sender.pc = "start"
    /\ IF Len(sender.records) = 0
       THEN sender' = [sender EXCEPT !.pc = "returned",
                                     !.response = [statusCode |-> 400]]
       ELSE sender' = [sender EXCEPT !.pc = "loop", !.i = 1]
    /\ UNCHANGED <<tasks, now, procs, sm, metrics, queue, config, mail, classification,
                   ingest, chain>>

\* getAllParameters or initialize throws: the catch of the handler returns
\* tracker.generateErrorResponse(globalError.message, allMessageIds)
InitializeError ==
    /\ sender.pc = "start"
    /\ Len(sender.records) > 0
    /\ \E errorMessage \in InitializeErrors :
         LET errorType == determineErrorType(errorMessage)
             allMessageIds == [k \in 1..Len(sender.records) |-> sender.records[k].messageId]
             unprocessed ==
                 SelectSeq(allMessageIds,
                           LAMBDA m : m \notin sender.tracker.processedMessageIds)
         IN sender' =
               [sender EXCEPT
                   !.pc = "returned",
                   !.response =
                       [batchItemFailures |->
                            IF shouldRetry(errorType)
                            THEN [k \in 1..Len(unprocessed) |->
                                     [itemIdentifier |-> unprocessed[k]]]
                            ELSE <<>>,
                        error |-> errorMessage,
                        errorType |-> errorType]]
    /\ UNCHANGED <<tasks, now, procs, sm, metrics, queue, config, mail, classification,
                   ingest, chain>>

\* one iteration of the loop over the records: parse, validate, sendPing,
\* and the record of the outcome in the tracker
ProcessMessage ==
    /\ sender.pc = "loop"
    /\ sender.i <= Len(sender.records)
    /\ LET message == sender.records[sender.i]
           validation == validateMessage(message.body.value)
       IN \E tracked \in
               IF ~message.body.parses
               THEN {recordError(sender.tracker, message.messageId, message.body.error,
                                 "Message processing error")}
               ELSE IF ~validation.success
               THEN {recordError(sender.tracker, message.messageId, <<validation.error>>,
                                 "Validation error")}
               ELSE {recordSuccess(sender.tracker, message.messageId,
                                   [transactionHash |-> "0xAAA", blockNumber |-> 1])}
                    \cup {recordError(sender.tracker, message.messageId, e,
                                      "Transaction error") : e \in PingErrors} :
             sender' = [sender EXCEPT !.tracker = tracked, !.i = @ + 1]
    /\ UNCHANGED <<tasks, now, procs, sm, metrics, queue, config, mail, classification,
                   ingest, chain>>

\* after the loop: return tracker.generateResponse()
GenerateResponse ==
    /\ sender.pc = "loop"
    /\ sender.i > Len(sender.records)
    /\ sender' = [sender EXCEPT
                     !.pc = "returned",
                     !.response =
                         [batchItemFailures |-> sender.tracker.batchItemFailures,
                          processingResults |->
                              [stats |-> sender.tracker.stats,
                               details |-> sender.tracker.results]]]
    /\ UNCHANGED <<tasks, now, procs, sm, metrics, queue, config, mail, classification,
                   ingest, chain>>

\* the handler is invoked with up to MaxBatch records
InitBatch ==
    /\ \E n \in 0..MaxBatch : \E bodies \in [1..n -> RecordBodies] :
          sender = [pc |-> "start", i |-> 0,
                    records |-> [k \in 1..n |->
                                    [messageId |-> MessageIds[k], body |-> bodies[k]]],
                    tracker |-> ProcessingTracker(n),
                    response |-> Nothing]
    /\ tasks = EmptyTable
    /\ now = StartMs
    /\ procs = [p \in Procs |-> IdleProc]
    /\ sm = NoExecution
    /\ metrics = <<>>
    /\ queue = <<>>
    /\ config = DefaultConfig
    /\ mail = NoMail
    /\ classification = Nothing
    /\ ingest = Nothing
    /\ chain = Nothing

NextBatch ==
    \/ Initialize
    \/ InitializeError
    \/ ProcessMessage
    \/ GenerateResponse

SpecBatch == InitBatch /\ [][NextBatch]_vars

----------------------------------------------------------------------------
(* Contract E2eMonitor *)

(* chain holds the contract after its deployment: the holders of its two
   roles, the E2ePing events in its log, the timestamp of the latest block,
   and the transactions sent to ping with their outcome. *)
MaxPings == 2

\* a gate that lets the administrator through as well
onlyRoleOrAdmin(role, account) ==
    account \in chain.roles[role] \cup chain.roles["DEFAULT_ADMIN_ROLE"]

\* modifier onlyRole(role) for msg.sender = account: hasRole, else revert
onlyRole(role, account) == account \in chain.roles[role]

\* constructor(initialSender), msg.sender the deployer; 0x0 is address(0)
InitChain ==
    /\ \E deployer \in {"0xa1", "0xa2", "0xa3"},
          initialSender \in {"0xa1", "0xa2", "0xa3", "0x0"} :
          chain = [roles |-> [DEFAULT_ADMIN_ROLE |-> {deployer},
                              SENDER_ROLE |-> IF initialSender # "0x0"
                                              THEN {initialSender} ELSE {}],
                   events |-> <<>>, blockTimestamp |-> 0, txs |-> <<>>]
    /\ tasks = EmptyTable
    /\ now = StartMs
    /\ procs = [p \in Procs |-> IdleProc]
    /\ sm = NoExecution
    /\ metrics = <<>>
    /\ queue = <<>>
    /\ config = DefaultConfig
    /\ mail = NoMail
    /\ classification = Nothing
    /\ ingest = Nothing
    /\ sender = Nothing

\* a transaction calling ping(correlationId, tag, clientTimestamp, nonce),
\* mined in a new block
Ping ==
    /\ chain # Nothing
    /\ Len(chain.txs) < MaxPings
    /\ \E from \in {"0xa1", "0xa2", "0xa3"}, correlationId \in {"0xh1", "0xh2"},
          tag \in {"0xt1"}, clientTimestamp \in {1000}, nonce \in {0, 1} :
          LET args == [correlationId |-> correlationId, tag |-> tag,
                       clientTimestamp |-> clientTimestamp, nonce |-> nonce]
              block == chain.blockTimestamp + 1
          IN IF onlyRole("SENDER_ROLE", from)
             THEN chain' = [chain EXCEPT
                      !.blockTimestamp = block,
                      !.txs = Append(@, [from |-> from, args |-> args, status |-> "success"]),
                      !.events = Append(@, [event |-> "E2ePing",
                                            correlationId |-> correlationId,
                                            sender |-> from,
                                            clientTimestamp |-> clientTimestamp,
                                            nonce |-> nonce,
                                            blockTimestamp |-> block,
                                            tag |-> tag])]
             ELSE chain' = [chain EXCEPT
                      !.blockTimestamp = block,
                      !.txs = Append(@, [from |-> from, args |-> args, status |-> "reverted"])]
    /\ UNCHANGED <<tasks, now, procs, sm, metrics, queue, config, mail, classification,
                   ingest, sender>>

SpecChain == InitChain /\ [][Ping]_vars

----------------------------------------------------------------------------
(* Vocabulary of the properties *)

\* no other invocation is in flight
Quiet(p) == \A q \in Procs \ {p} : procs[q].pc \in {"idle", "done"}

\* invocation p takes a step
Steps(p) == procs'[p] # procs[p]

\* invocation p starts with this step
Starts(p, op) == procs[p].pc = "idle" /\ procs'[p].op = op

\* invocation p returns with this step
Returns(p, op) == procs[p].pc # "done" /\ procs'[p].pc = "done" /\ procs'[p].op = op

\* the Balance window of an invocation whose Date.now() was nowMs
InWindow(item, nowMs) ==
    /\ item.createdAtMs >= nowMs - WINDOW_MINUTES * 60 * 1000
    /\ item.createdAtMs <= nowMs

WindowIds(nowMs) == {i \in DOMAIN tasks : InWindow(tasks[i], nowMs)}

Fresh(item) ==
    /\ item.status = "PENDING"
    /\ item.correlationResolved = FALSE
    /\ item.balanceReceived = FALSE
    /\ item.correlationIdHex = Sha256Hex(item.correlationId)

----------------------------------------------------------------------------
(* C1: in every reachable state every Task's stored status is the documented
   function of its two flags: (false,false) PENDING, (true,false) EVENT_ONLY,
   (false,true) BALANCE_ONLY, (true,true) SUCCESS. *)
StatusMatchesFlags ==
    \A i \in DOMAIN tasks :
        tasks[i].status = StatusOf(tasks[i].correlationResolved, tasks[i].balanceReceived)

(* C2: flag monotonicity: no step removes a Task or turns a flag that is
   true back to false. *)
FlagsMonotonic ==
    [][\A i \in DOMAIN tasks :
          /\ i \in DOMAIN tasks'
          /\ tasks[i].correlationResolved => tasks'[i].correlationResolved
          /\ tasks[i].balanceReceived => tasks'[i].balanceReceived]_vars

\* a retry-create wrote a Task after its event flag was set, and the flag stands
FlagsMonotonicWitness ==
    \E p \in Procs :
        /\ procs[p].op = "init" /\ procs[p].outcome = "updated"
        /\ tasks[procs[p].correlationId].correlationResolved
        /\ tasks[procs[p].correlationId].updatedAtMs
              > tasks[procs[p].correlationId].eventEmailAtMs

(* C3: of the applyEvent invocations that read one unresolved Task by the
   same idHash, the one whose conditional write is accepted applies the
   update and every other reports Duplicate or RaceLost; at most one applies. *)
EventExactlyOnce ==
    [][\A p \in Procs :
          (procs[p].pc = "update" /\ Returns(p, "event")) =>
             /\ procs'[p].outcome \in
                   {"EventApplied", "SoftMiss/EventDuplicate", "SoftMiss/EventRaceCondition"}
             /\ procs'[p].outcome = "EventApplied" =>
                   /\ tasks'[procs[p].correlationId].txHash = procs[p].txHash
                   /\ \A q \in Procs \ {p} :
                         ~(/\ procs[q].outcome = "EventApplied"
                           /\ procs[q].correlationId = procs[p].correlationId)]_vars

(* C4: a step of init-record for an id that already has a Task changes at
   most attempt, totalAttempts, updatedAt and ttl of that Task, changes no
   other Task, and the invocation reports created = false. *)
RetryCreateFrame ==
    [][\A p \in Procs :
          (/\ Steps(p)
           /\ procs'[p].op = "init"
           /\ procs'[p].correlationId \in DOMAIN tasks) =>
             LET id == procs'[p].correlationId
             IN /\ DOMAIN tasks' = DOMAIN tasks
                /\ \A j \in DOMAIN tasks \ {id} : tasks'[j] = tasks[j]
                /\ tasks'[id] = [tasks[id] EXCEPT !.attempt = tasks'[id].attempt,
                                                  !.totalAttempts = tasks'[id].totalAttempts,
                                                  !.updatedAtMs = tasks'[id].updatedAtMs,
                                                  !.ttl = tasks'[id].ttl]
                /\ procs'[p].pc = "done" => procs'[p].outcome = "updated"]_vars

\* a retry-create has rewritten the bookkeeping of a Task that an Event
\* notification had resolved, and the Task keeps what the notification wrote
RetryCreateWitness ==
    \E p, q \in Procs :
        /\ q < p
        /\ procs[q].op = "event" /\ procs[q].outcome = "EventApplied"
        /\ procs[p].op = "init" /\ procs[p].outcome = "updated"
        /\ procs[p].correlationId = procs[q].correlationId
        /\ LET t == tasks[procs[p].correlationId]
           IN /\ t.status = "EVENT_ONLY" /\ t.correlationResolved
              /\ t.txHash = procs[q].txHash
              /\ t.attempt = 2
              /\ t.updatedAtMs > t.createdAtMs
              /\ t.updatedAtMs > t.eventEmailAtMs

(* C5: when the window holds exactly one Tier 1 candidate and one Tier 2
   candidate and nothing else writes, applyBalance sets balanceReceived on
   the Tier 1 candidate and leaves the Tier 2 candidate as it is, whichever
   of the two is newer. *)
BalanceTiering ==
    [][\A p \in Procs : \A a, b \in DOMAIN tasks :
          (/\ procs[p].op = "balance" /\ procs[p].pc = "loop" /\ Steps(p)
           /\ Quiet(p)
           /\ WindowIds(procs[p].nowMs) = {a, b}
           /\ IsEventOnly(tasks[a])
           /\ IsPending(tasks[b])
           /\ {procs[p].items[k] : k \in 1..Len(procs[p].items)} = {tasks[a], tasks[b]}) =>
             /\ tasks'[a].balanceReceived = TRUE
             /\ tasks'[a].balanceEmailAtMs = procs[p].nowMs
             /\ tasks'[b] = tasks[b]
             /\ procs'[p].pc = "done"
             /\ procs'[p].outcome = "BalanceAttached"
             /\ procs'[p].correlationId = a]_vars

\* a Balance notification was attached to the older, event-resolved Task
\* while the newer Task of the window stays pending
BalanceTieringWitness ==
    \E p, q \in Procs : \E a, b \in DOMAIN tasks :
        /\ q < p
        /\ procs[q].op = "event" /\ procs[q].outcome = "EventApplied"
        /\ procs[q].correlationId = a
        /\ procs[p].op = "balance" /\ procs[p].outcome = "BalanceAttached"
        /\ procs[p].correlationId = a
        /\ a # b
        /\ tasks[a].createdAtMs < tasks[b].createdAtMs
        /\ tasks[a].status = "SUCCESS" /\ tasks[a].balanceReceived
        /\ InWindow(tasks[a], tasks[a].balanceEmailAtMs)
        /\ InWindow(tasks[b], tasks[a].balanceEmailAtMs)
        /\ Fresh(tasks[b])

(* C6: scenario A.  For a freshly created Task that is the only Task in the
   window, with nothing else running: applyEvent with its hash finds it and
   sets correlationResolved with status EVENT_ONLY, txHash and the arrival
   time; a following applyBalance finds it as the sole candidate and sets
   balanceReceived with status SUCCESS. *)
ScenarioNormalOrder ==
    [][\A p \in Procs : \A i \in DOMAIN tasks :
          /\ (/\ Starts(p, "event") /\ Quiet(p)
              /\ WindowIds(now') = {i} /\ Fresh(tasks[i])
              /\ procs'[p].correlationIdHex = Sha256Hex(i)) =>
                 /\ procs'[p].pc = "update"
                 /\ procs'[p].correlationId = i
          /\ (/\ procs[p].op = "event" /\ procs[p].pc = "update" /\ Steps(p) /\ Quiet(p)
              /\ procs[p].correlationId = i /\ Fresh(tasks[i])) =>
                 /\ tasks'[i] = [tasks[i] EXCEPT
                                   !.correlationResolved = TRUE,
                                   !.status = "EVENT_ONLY",
                                   !.txHash = procs[p].txHash,
                                   !.eventEmailAtMs = procs[p].nowMs,
                                   !.eventBucket = tasks'[i].eventBucket,
                                   !.updatedAtMs = tasks'[i].updatedAtMs]
                 /\ procs'[p].outcome = "EventApplied"
          /\ (/\ Starts(p, "balance") /\ Quiet(p)
              /\ WindowIds(now') = {i}
              /\ tasks[i].status = "EVENT_ONLY" /\ IsEventOnly(tasks[i])) =>
                 /\ procs'[p].pc = "loop"
                 /\ procs'[p].items = <<tasks[i]>>
          /\ (/\ procs[p].op = "balance" /\ procs[p].pc = "loop" /\ Steps(p) /\ Quiet(p)
              /\ procs[p].items = <<tasks[i]>>
              /\ tasks[i].status = "EVENT_ONLY" /\ IsEventOnly(tasks[i])) =>
                 /\ tasks'[i] = [tasks[i] EXCEPT
                                   !.balanceReceived = TRUE,
                                   !.status = "SUCCESS",
                                   !.balanceEmailAtMs = procs[p].nowMs,
                                   !.updatedAtMs = tasks'[i].updatedAtMs]
                 /\ procs'[p].outcome = "BalanceAttached"]_vars

\* scenario A has run to its end on the only Task: event applied, then
\* balance attached, one after the other
ScenarioNormalOrderWitness ==
    \E q, r \in Procs :
        /\ q < r
        /\ procs[q].op = "event" /\ procs[q].outcome = "EventApplied"
        /\ procs[r].op = "balance" /\ procs[r].outcome = "BalanceAttached"
        /\ procs[r].correlationId = procs[q].correlationId
        /\ DOMAIN tasks = {procs[q].correlationId}
        /\ LET t == tasks[procs[q].correlationId]
           IN /\ t.status = "SUCCESS" /\ t.correlationResolved /\ t.balanceReceived
              /\ t.txHash = "0xAAA"
              /\ t.createdAtMs <= t.eventEmailAtMs
              /\ t.eventEmailAtMs < t.balanceEmailAtMs
              /\ InWindow(t, t.balanceEmailAtMs)

(* C7: scenario B.  For a freshly created Task that is the only Task in the
   window, with nothing else running: applyBalance finds it as the sole
   candidate and sets balanceReceived with status BALANCE_ONLY; a following
   applyEvent with its hash finds it and sets correlationResolved with
   status SUCCESS. *)
ScenarioReversedOrder ==
    [][\A p \in Procs : \A i \in DOMAIN tasks :
          /\ (/\ Starts(p, "balance") /\ Quiet(p)
              /\ WindowIds(now') = {i} /\ Fresh(tasks[i])) =>
                 /\ procs'[p].pc = "loop"
                 /\ procs'[p].items = <<tasks[i]>>
          /\ (/\ procs[p].op = "balance" /\ procs[p].pc = "loop" /\ Steps(p) /\ Quiet(p)
              /\ procs[p].items = <<tasks[i]>> /\ Fresh(tasks[i])) =>
                 /\ tasks'[i] = [tasks[i] EXCEPT
                                   !.balanceReceived = TRUE,
                                   !.status = "BALANCE_ONLY",
                                   !.balanceEmailAtMs = procs[p].nowMs,
                                   !.updatedAtMs = tasks'[i].updatedAtMs]
                 /\ procs'[p].outcome = "BalanceAttached"
          /\ (/\ Starts(p, "event") /\ Quiet(p)
              /\ WindowIds(now') = {i}
              /\ tasks[i].status = "BALANCE_ONLY"
              /\ tasks[i].balanceReceived /\ ~tasks[i].correlationResolved
              /\ procs'[p].correlationIdHex = tasks[i].correlationIdHex) =>
                 /\ procs'[p].pc = "update"
                 /\ procs'[p].correlationId = i
          /\ (/\ procs[p].op = "event" /\ procs[p].pc = "update" /\ Steps(p) /\ Quiet(p)
              /\ procs[p].correlationId = i
              /\ procs[p].items = <<tasks[i]>>
              /\ tasks[i].status = "BALANCE_ONLY"
              /\ tasks[i].balanceReceived /\ ~tasks[i].correlationResolved) =>
                 /\ tasks'[i] = [tasks[i] EXCEPT
                                   !.correlationResolved = TRUE,
                                   !.status = "SUCCESS",
                                   !.txHash = procs[p].txHash,
                                   !.eventEmailAtMs = procs[p].nowMs,
                                   !.eventBucket = tasks'[i].eventBucket,
                                   !.updatedAtMs = tasks'[i].updatedAtMs]
                 /\ procs'[p].outcome = "EventApplied"]_vars

\* scenario B has run to its end on the only Task: balance attached, then
\* event applied, one after the other
ScenarioReversedOrderWitness ==
    \E q, r \in Procs :
        /\ q < r
        /\ procs[q].op = "balance" /\ procs[q].outcome = "BalanceAttached"
        /\ procs[r].op = "event" /\ procs[r].outcome = "EventApplied"
        /\ procs[r].correlationId = procs[q].correlationId
        /\ DOMAIN tasks = {procs[q].correlationId}
        /\ LET t == tasks[procs[q].correlationId]
           IN /\ t.status = "SUCCESS" /\ t.correlationResolved /\ t.balanceReceived
              /\ t.createdAtMs < t.balanceEmailAtMs
              /\ t.balanceEmailAtMs < t.eventEmailAtMs

(* C8: scenario C.  An applyEvent invoked, with nothing else running, for an
   idHash whose Task already has correlationResolved = true reports
   SoftMiss EventDuplicate and leaves the table unchanged. *)
DuplicateEventReported ==
    [][\A p \in Procs : \A i \in DOMAIN tasks :
          (/\ Starts(p, "event") /\ Quiet(p)
           /\ tasks[i].correlationResolved
           /\ procs'[p].correlationIdHex = tasks[i].correlationIdHex) =>
             /\ procs'[p].pc = "done"
             /\ procs'[p].outcome = "SoftMiss/EventDuplicate"
             /\ tasks' = tasks]_vars

(* C9: write-once fields: no step changes a Task's correlationId,
   correlationIdHex or createdAtMs, nor a txHash, eventEmailAtMs or
   balanceEmailAtMs that is set. *)
WriteOnceFields ==
    [][\A i \in DOMAIN tasks :
          /\ i \in DOMAIN tasks'
          /\ tasks'[i].correlationId = tasks[i].correlationId
          /\ tasks'[i].correlationIdHex = tasks[i].correlationIdHex
          /\ tasks'[i].createdAtMs = tasks[i].createdAtMs
          /\ tasks[i].txHash # NoTx => tasks'[i].txHash = tasks[i].txHash
          /\ tasks[i].eventEmailAtMs # NoMs =>
                tasks'[i].eventEmailAtMs = tasks[i].eventEmailAtMs
          /\ tasks[i].balanceEmailAtMs # NoMs =>
                tasks'[i].balanceEmailAtMs = tasks[i].balanceEmailAtMs]_vars

\* an Event notification carrying another transaction hash read the Task
\* while it was unresolved and lost the conditional write: the txHash and
\* arrival time of the first stand
WriteOnceWitness ==
    \E p, q \in Procs :
        /\ p # q
        /\ procs[p].op = "event" /\ procs[p].outcome = "EventApplied"
        /\ procs[q].op = "event" /\ procs[q].pc = "done"
        /\ procs[q].outcome # "EventApplied"
        /\ procs[q].correlationId = procs[p].correlationId
        /\ procs[q].txHash # procs[p].txHash
        /\ tasks[procs[p].correlationId].txHash = procs[p].txHash

----------------------------------------------------------------------------
(* Vocabulary of the properties of an execution *)

\* the metric data of one name, in the order in which they were put
Named(name) == SelectSeq(metrics, LAMBDA m : m.MetricName = name)

\* some poll of the execution satisfied the condition of Found?
PollSatisfied ==
    \/ sm.state \in {"EmitSuccessMetric", "Success"}
    \/ Named("Success") # <<>>

\* the metric data at position k and the one after it are the pair that one
\* failed attempt n puts
AttemptFailedPairAt(k, n) ==
    /\ metrics[k].MetricName = "AttemptFailed"
    /\ metrics[k + 1].MetricName = "AttemptFailedInfo"
    /\ metrics[k + 1].Dimensions =
          [Attempt |-> n, TotalAttempts |-> config.totalAttempts, PollCount |-> PollLimit]

\* what an execution without a satisfied poll has put so far: the heartbeat,
\* then one AttemptFailed pair per failed attempt, in the order of the
\* attempts, then at most one FinalFailed pair after the last attempt
ExhaustionPrefix ==
    LET failed == Len(Named("AttemptFailed"))
        final == Len(Named("FinalFailed"))
    IN /\ Named("Success") = <<>>
       /\ failed <= config.totalAttempts
       /\ final <= 1
       /\ final = 1 => failed = config.totalAttempts
       /\ Len(metrics) \in {0, 1 + 2 * failed + 2 * final}
       /\ \A n \in 1..failed : AttemptFailedPairAt(2 * n, n)
       /\ final = 1 =>
             /\ metrics[2 * failed + 2].MetricName = "FinalFailed"
             /\ metrics[2 * failed + 3].MetricName = "FinalFailedInfo"

(* C10: exhaustion.  For every totalAttempts T of 1 and more, an execution
   none of whose polls satisfies the success condition puts exactly one
   AttemptFailed per attempt, the n-th with Attempt = n, TotalAttempts = T
   and PollCount = 14, then exactly one FinalFailed, and never Success; it
   comes to an end, and unless the timeout of the execution ended it, it ends
   in AllAttemptsFailed with all T AttemptFailed and the FinalFailed put. *)
ExhaustionReported ==
    /\ [](~PollSatisfied =>
             /\ ExhaustionPrefix
             /\ sm.status \in {"RUNNING", "FAILED", "TIMED_OUT"}
             /\ sm.status = "FAILED" =>
                   /\ sm.state = "AllAttemptsFailed"
                   /\ Len(Named("AttemptFailed")) = config.totalAttempts
                   /\ Len(Named("FinalFailed")) = 1)
    /\ <>(sm.status # "RUNNING")

\* an execution of two attempts has ended in AllAttemptsFailed: both
\* attempts created their Task and ran out of polls
ExhaustionReportedWitness ==
    /\ config.totalAttempts = 2
    /\ sm.status = "FAILED" /\ sm.state = "AllAttemptsFailed"
    /\ sm.attempt = 3 /\ sm.pollCount = PollLimit
    /\ {IdSeq[1], IdSeq[2]} \subseteq DOMAIN tasks
    /\ Len(queue) = 2
    /\ Len(Named("AttemptFailed")) = 2
    /\ Len(Named("FinalFailed")) = 1

\* the step is a poll read: Check DDB Item or Check DDB Item (retry)
PollRead ==
    /\ sm.status = "RUNNING"
    /\ sm.state \in {"Check DDB Item", "Check DDB Item (retry)"}
    /\ sm'.state = "Found?"

\* the Tasks that the running attempt created: keyed by a uuid, with the
\* hash that the attempt's probe message carries
AttemptTasks ==
    {i \in DOMAIN tasks :
        /\ \E k \in 1..Len(IdSeq) : IdSeq[k] = i
        /\ "correlationIdHex32" \in DOMAIN sm.messageBody
        /\ tasks[i].correlationIdHex = sm.messageBody.correlationIdHex32}

(* C11: success detection.  In the default mode, a poll read of attempt n
   made while the Task created in attempt n has both correlationResolved and
   balanceReceived true returns that Task with both flags true, so that the
   poll satisfies the success condition. *)
SuccessDetected ==
    [][\A i \in AttemptTasks :
          (/\ PollRead
           /\ tasks[i].correlationResolved /\ tasks[i].balanceReceived) =>
             /\ "Item" \in DOMAIN sm'.ddbCorr
             /\ sm'.ddbCorr.Item.correlationResolved
             /\ sm'.ddbCorr.Item.balanceReceived]_vars

(* C12: timeout reporting.  An execution that its timeout ended while it was
   in WaitForEmail or in WaitAndRetry has put the FinalFailed metric. *)
TimeoutReported ==
    (sm.status = "TIMED_OUT" /\ sm.state \in {"WaitForEmail", "WaitAndRetry"}) =>
        Named("FinalFailed") # <<>>

\* invocation p's conditional event update is rejected in this step:
\* another invocation has set correlationResolved since p's query
EventWriteRejected(p) ==
    /\ procs[p].op = "event" /\ procs[p].pc = "update"
    /\ Steps(p)
    /\ tasks[procs[p].correlationId].correlationResolved = TRUE

(* C13: race lost is a soft miss.  An event invocation whose conditional
   update is rejected because another invocation has already set
   correlationResolved returns without an error, counted as
   SoftMiss/EventRaceCondition and under no Failures metric. *)
RaceLostIsSoftMiss ==
    [][\A p \in Procs :
          EventWriteRejected(p) =>
             /\ procs'[p].pc = "done"
             /\ procs'[p].outcome = "SoftMiss/EventRaceCondition"]_vars

\* the Tasks of the two tiers in the window that ends at nowMs
TierIds(nowMs) ==
    {i \in WindowIds(nowMs) : IsEventOnly(tasks[i]) \/ IsPending(tasks[i])}

\* invocation p runs an iteration of the candidate loop in this step
LoopStep(p) == procs[p].op = "balance" /\ procs[p].pc = "loop" /\ Steps(p)

\* the candidate that invocation p is about to update
Cand(p) == Head(procs[p].items).correlationId

\* the iteration's conditional write is rejected as a conflict: another balance
\* notification has set balanceReceived on the candidate
BalanceWriteConflicts(p) == LoopStep(p) /\ tasks[Cand(p)].balanceReceived = TRUE

(* C14: soft misses of the balance attach.  A balance invocation whose query
   returns reports SoftMiss/BalanceNoCandidate exactly when no Task of the
   two tiers lies in the window; an iteration whose write is rejected as a
   conflict goes on to the next candidate and, on the last candidate,
   reports SoftMiss/BalanceDuplicate, which is reported only from a non-empty
   candidate list; the steps that report either metric modify no Task. *)
BalanceSoftMisses ==
    [][\A p \in Procs :
          /\ (Starts(p, "balance") /\ procs'[p].outcome # "Failures/GsiQueryError") =>
                /\ (procs'[p].outcome = "SoftMiss/BalanceNoCandidate") <=> (TierIds(now') = {})
                /\ procs'[p].outcome # "SoftMiss/BalanceDuplicate"
                /\ tasks' = tasks
          /\ BalanceWriteConflicts(p) =>
                /\ tasks' = tasks
                /\ IF Len(procs[p].items) = 1
                   THEN procs'[p].pc = "done" /\ procs'[p].outcome = "SoftMiss/BalanceDuplicate"
                   ELSE procs'[p].pc = "loop" /\ procs'[p].items = Tail(procs[p].items)
          /\ (Steps(p) /\ procs'[p].outcome \in {"SoftMiss/BalanceNoCandidate",
                                                "SoftMiss/BalanceDuplicate"}) =>
                /\ tasks' = tasks
                /\ (procs'[p].outcome = "SoftMiss/BalanceDuplicate") => LoopStep(p)]_vars

\* two balance invocations read the same single candidate; one attached, the
\* other was rejected and reported the duplicate
BalanceSoftMissesWitness ==
    \E p, q \in Procs :
        /\ procs[q].pc = "done" /\ procs[q].outcome = "BalanceAttached"
        /\ procs[p].pc = "done" /\ procs[p].outcome = "SoftMiss/BalanceDuplicate"
        /\ \A i \in DOMAIN tasks : tasks[i].balanceReceived = TRUE

\* the metrics of the Failures class
FailureOutcomes ==
    {"Failures/ExplorerError", "Failures/DdbError", "Failures/GsiQueryError",
     "Failures/UnexpectedError"}

\* the iteration's write fails although its condition holds: the store
\* raised an error other than a conditional-check conflict
BalanceWriteFails(p) ==
    /\ LoopStep(p)
    /\ tasks[Cand(p)].balanceReceived # TRUE
    /\ tasks' = tasks

(* C15: store write errors of the balance attach.  An iteration of the
   candidate loop whose write fails with a store error is not reported as
   SoftMiss/BalanceDuplicate, and an invocation that ends on it ends with a
   metric of the Failures class. *)
BalanceWriteErrorCounted ==
    [][\A p \in Procs :
          BalanceWriteFails(p) =>
             /\ procs'[p].outcome # "SoftMiss/BalanceDuplicate"
             /\ procs'[p].pc = "done" => procs'[p].outcome \in FailureOutcomes]_vars

(* C16: failure of the balance query.  The first step of a balance invocation
   modifies no Task; when it reports Failures/GsiQueryError the invocation is
   over, and an invocation that is over takes no further step, so it reports
   nothing else and writes nothing; SoftMiss/BalanceNoCandidate is reported
   only when the window holds no Task of the two tiers, and
   SoftMiss/BalanceDuplicate is never reported by the first step: a query
   that failed is not taken for an empty result. *)
QueryFailureReported ==
    [][\A p \in Procs :
          /\ Starts(p, "balance") =>
                /\ tasks' = tasks
                /\ procs'[p].outcome \in {"none", "SoftMiss/BalanceNoCandidate",
                                          "Failures/GsiQueryError"}
                /\ (procs'[p].outcome = "Failures/GsiQueryError") => procs'[p].pc = "done"
                /\ (procs'[p].outcome = "SoftMiss/BalanceNoCandidate") => TierIds(now') = {}
                /\ (procs'[p].outcome = "none") =>
                      /\ procs'[p].pc = "loop"
                      /\ procs'[p].items # <<>>
          /\ procs[p].pc = "done" => procs'[p] = procs[p]]_vars

\* a balance query failed while a candidate lay in the window, and no Task
\* has a balance
QueryFailureReportedWitness ==
    \E p \in Procs :
        /\ procs[p].pc = "done" /\ procs[p].outcome = "Failures/GsiQueryError"
        /\ TierIds(now) # {}
        /\ \A i \in DOMAIN tasks : tasks[i].balanceReceived = FALSE

\* the Tasks that this step changes
Modified == {i \in DOMAIN tasks : i \notin DOMAIN tasks' \/ tasks'[i] # tasks[i]}

\* invocation p of upsertEventRecord takes this step
EventStep(p) == Steps(p) /\ procs'[p].op = "event"

(* C17: lifecycle isolation for events.  A step of upsertEventRecord(h, tx, ts)
   creates no Task, changes at most one Task, and changes only a Task whose
   correlationIdHex is h; when no Task has correlationIdHex h, the invocation
   reports SoftMiss/EventRecordNotFound in its first step and changes
   nothing. *)
EventIsolation ==
    [][\A p \in Procs :
          EventStep(p) =>
             /\ DOMAIN tasks' = DOMAIN tasks
             /\ Cardinality(Modified) <= 1
             /\ \A i \in Modified : tasks[i].correlationIdHex = procs'[p].correlationIdHex
             /\ (/\ Starts(p, "event")
                 /\ \A i \in DOMAIN tasks :
                       tasks[i].correlationIdHex # procs'[p].correlationIdHex) =>
                   /\ procs'[p].pc = "done"
                   /\ procs'[p].outcome = "SoftMiss/EventRecordNotFound"
                   /\ Modified = {}]_vars

\* an event was applied to one of two unresolved Tasks; the other, of another
\* hash, is as it was created
EventIsolationWitness ==
    \E p \in Procs, i, j \in DOMAIN tasks :
        /\ procs[p].pc = "done" /\ procs[p].outcome = "EventApplied"
        /\ procs[p].correlationId = i
        /\ tasks[i].correlationResolved = TRUE
        /\ j # i
        /\ tasks[j].correlationIdHex # tasks[i].correlationIdHex
        /\ tasks[j].correlationResolved = FALSE
        /\ tasks[j].updatedAtMs = tasks[j].createdAtMs

\* createdAtMs lies in the ten minutes that end at nowMs
InTenMinutes(createdAtMs, nowMs) ==
    createdAtMs >= nowMs - 10 * 60 * 1000 /\ createdAtMs <= nowMs

(* C18: balance window.  The candidates of a balance invocation are Tasks
   created in the ten minutes that end at the invocation's Date.now(), and
   the Task that the invocation updates was created in those ten minutes,
   whatever the flags of the older Tasks. *)
BalanceWindow ==
    [][\A p \in Procs :
          /\ (Starts(p, "balance") /\ procs'[p].pc = "loop") =>
                \A k \in 1..Len(procs'[p].items) :
                    /\ procs'[p].items[k].correlationId \in DOMAIN tasks
                    /\ InTenMinutes(tasks[procs'[p].items[k].correlationId].createdAtMs, now')
          /\ LoopStep(p) =>
                \A i \in Modified : InTenMinutes(tasks[i].createdAtMs, procs[p].nowMs)]_vars

\* a balance was attached to a Task of the window while an older Task,
\* created before the window, has no balance
BalanceWindowWitness ==
    \E p \in Procs, i, j \in DOMAIN tasks :
        /\ procs[p].pc = "done" /\ procs[p].outcome = "BalanceAttached"
        /\ procs[p].correlationId = i
        /\ tasks[i].balanceReceived = TRUE
        /\ tasks[j].balanceReceived = FALSE
        /\ ~InTenMinutes(tasks[j].createdAtMs, tasks[i].balanceEmailAtMs)
        /\ tasks[j].createdAtMs < tasks[i].createdAtMs

\* the priority tier of a candidate
TierOf(item) == IF IsEventOnly(item) THEN 1 ELSE 2

\* the positions in invocation p's candidate list of the candidates of the
\* tier that the list starts with
Peers(p) ==
    {k \in 1..Len(procs[p].items) :
        TierOf(procs[p].items[k]) = TierOf(procs[p].items[1])}

\* invocation p runs its loop alone on candidates that are as it read them,
\* several of them in the tier that comes first
SeveralUndisturbed(p) ==
    /\ LoopStep(p)
    /\ Quiet(p)
    /\ \A k \in 1..Len(procs[p].items) :
          tasks[procs[p].items[k].correlationId] = procs[p].items[k]
    /\ Cardinality(Peers(p)) >= 2

(* C19 as stated: oldest-unresolved-first.  A balance invocation that runs
   alone with several candidates in its first tier attaches the balance to
   the one of them that was created earliest. *)
OldestUnresolvedFirst ==
    [][\A p \in Procs :
          SeveralUndisturbed(p) =>
             /\ Modified = {Cand(p)}
             /\ \A k \in Peers(p) :
                   procs[p].items[1].createdAtMs <= procs[p].items[k].createdAtMs]_vars

(* C19: newest-unresolved-first.  A balance invocation that runs alone with
   several candidates in its first tier attaches the balance to the one of
   them that was created latest, and to no other Task. *)
NewestUnresolvedFirst ==
    [][\A p \in Procs :
          SeveralUndisturbed(p) =>
             /\ Modified = {Cand(p)}
             /\ tasks'[Cand(p)].balanceReceived = TRUE
             /\ procs'[p].outcome = "BalanceAttached"
             /\ \A k \in Peers(p) :
                   procs[p].items[1].createdAtMs >= procs[p].items[k].createdAtMs]_vars

\* of two pending Tasks of the window, the later one has the balance and the
\* earlier one is as it was created
NewestUnresolvedFirstWitness ==
    \E p \in Procs, i, j \in DOMAIN tasks :
        /\ procs[p].pc = "done" /\ procs[p].outcome = "BalanceAttached"
        /\ procs[p].correlationId = i
        /\ tasks[i].status = "BALANCE_ONLY"
        /\ tasks[j].status = "PENDING"
        /\ tasks[j].createdAtMs < tasks[i].createdAtMs
        /\ InTenMinutes(tasks[j].createdAtMs, tasks[i].balanceEmailAtMs)
        /\ \A q \in Procs \ {p} : procs[q].pc = "idle"

\* the positions of the text that hold 64 hex digits
Hex64Positions(text) == {k \in 1..Len(text) : text[k] \in {"0xAAA", "0xCCC", "AAA"}}

\* position k lies in an explorer URL: after a scheme, with no white space
\* in between and a /tx/ somewhere in it
InTxUrl(text, k) ==
    \E i \in 1..(k - 1) :
        /\ text[i] = "https://"
        /\ \E j \in (i + 1)..Len(text) :
              /\ text[j] = "/tx/"
              /\ \A m \in i..(IF j > k THEN j ELSE k) : text[m] # " "

\* position k follows a recognised label, a colon and nothing else but
\* white space
Labelled(text, k) ==
    \E i, c \in 1..(k - 1) :
        /\ i < c
        /\ text[i] = "TxID"
        /\ text[c] = ":"
        /\ \A m \in (i + 1)..(k - 1) : m # c => text[m] = " "

\* the text has 64-hex tokens and none of them is in a URL or labelled
OnlyUnlabelledHex(text) ==
    /\ Hex64Positions(text) # {}
    /\ \A k \in Hex64Positions(text) : ~InTxUrl(text, k) /\ ~Labelled(text, k)

(* C20: classifier precision.  A mail whose 64-hex tokens are all unlabelled,
   none in a /tx/ URL and none after a recognised label, is not classified
   as an event; when no balance keyword rule matches it either, it is
   classified other. *)
ClassifierPrecision ==
    (classification # Nothing /\ OnlyUnlabelledHex(mail.text)) =>
        /\ classification.type # "event"
        /\ ~isBalanceMail(mail.text, mail.subject) => classification = [type |-> "other"]

\* a 0x hash after a colon that follows no recognised label, in a mail
\* without balance keywords, was classified other
ClassifierPrecisionWitness ==
    /\ classification = [type |-> "other"]
    /\ \E k \in 2..Len(mail.text) :
          /\ mail.text[k] \in {"0xAAA", "0xCCC"}
          /\ mail.text[k - 1] = ":"

\* the positions of the 0x hashes that end an explorer URL: right after /tx/,
\* in a run without white space that starts with a scheme
UrlRefs(text) ==
    {k \in 3..Len(text) :
        /\ text[k] \in {"0xAAA", "0xCCC"}
        /\ text[k - 1] = "/tx/"
        /\ \E i \in 1..(k - 2) :
              text[i] = "https://" /\ \A m \in i..k : text[m] # " "}

\* the positions of the 0x hashes that follow a recognised label
LabelRefs(text) ==
    {k \in 1..Len(text) : text[k] \in {"0xAAA", "0xCCC"} /\ Labelled(text, k)}

\* the reference that the first explorer URL of a text carries: the first 0x
\* hash of the run that starts at its scheme and ends with the hash after /tx/
UrlReference(text) ==
    LET k0 == Least(UrlRefs(text))
        i0 == Least({i \in 1..k0 : text[i] = "https://" /\ \A m \in i..k0 : text[m] # " "})
    IN text[Least({m \in i0..k0 : text[m] \in {"0xAAA", "0xCCC"}})]

\* the transaction reference of a text: of its first explorer URL, else of
\* its first labelled field
Reference(text) ==
    IF UrlRefs(text) # {} THEN UrlReference(text)
    ELSE IF LabelRefs(text) # {} THEN text[Least(LabelRefs(text))]
    ELSE NoTx

\* the step classifies the record in hand
Classifies == ingest # Nothing /\ ingest.pc = "classify" /\ ingest'.pc = "dispatch"

\* the step handles a record classified other
HandlesOther ==
    /\ ingest # Nothing /\ ingest.pc = "dispatch" /\ ingest' # ingest
    /\ classification.type = "other"

(* C21: classification priority.  Every mail is classified event, balance or
   other: event with the transaction reference of the text whenever it has
   one, the reference of an explorer URL before that of a labelled field,
   whatever the balance keywords; balance only without a reference and with a
   keyword rule matching; a record classified other is left with no request
   made, no metric emitted and no Task changed. *)
ClassificationPriority ==
    [][/\ Classifies =>
            /\ classification'.type \in {"event", "balance", "other"}
            /\ Reference(mail'.text) # NoTx =>
                  classification' = [type |-> "event", txHash |-> Reference(mail'.text)]
            /\ classification'.type = "event" => Reference(mail'.text) # NoTx
            /\ classification'.type = "balance" <=>
                  (Reference(mail'.text) = NoTx /\ isBalanceMail(mail'.text, mail'.subject))
       /\ HandlesOther =>
            /\ Len(ingest'.calls) = Len(ingest.calls)
            /\ ingest'.emitted = ingest.emitted
            /\ tasks' = tasks
            /\ ingest'.i = ingest.i + 1]_vars

\* a mail with an explorer URL, a labelled field of another hash and the
\* balance keywords has been classified event with the URL's reference
ClassificationPriorityWitness ==
    /\ ingest # Nothing /\ ingest.pc = "dispatch"
    /\ UrlRefs(mail.text) # {} /\ LabelRefs(mail.text) # {}
    /\ mail.text[Least(LabelRefs(mail.text))] # UrlReference(mail.text)
    /\ isBalanceMail(mail.text, mail.subject)
    /\ classification = [type |-> "event", txHash |-> UrlReference(mail.text)]

\* the step resolves the receipt of a record classified event
FetchStep ==
    /\ ingest # Nothing /\ ingest.pc = "dispatch" /\ ingest' # ingest
    /\ classification.type = "event"

\* the requests that the step makes
NewCalls == SubSeq(ingest'.calls, Len(ingest.calls) + 1, Len(ingest'.calls))

\* the positions of the requests of c sent over a path
Over(c, path) == {k \in 1..Len(c) : c[k].call = path}

(* C22: receipt resolution fallback.  The Alchemy path is tried, and first, if
   and only if it is configured; the explorer path is tried if and only if
   Alchemy is not configured or has failed; the receipt kept is the one of the
   first path that succeeds; when every path tried fails the handler counts
   Failures/ExplorerError, leaves the Tasks as they are and goes on. *)
ReceiptFallback ==
    [][FetchStep =>
         LET c == NewCalls
             succeeded == {k \in 1..Len(c) : c[k].ok}
         IN /\ c # <<>>
            /\ \A k \in 1..Len(c) : c[k].call \in {"alchemy", "explorer"} /\ c[k].rec = ingest.i
            /\ Cardinality(Over(c, "alchemy")) <= 1 /\ Cardinality(Over(c, "explorer")) <= 1
            /\ Over(c, "alchemy") = (IF ingest.alchemy THEN {1} ELSE {})
            /\ Over(c, "explorer") # {} <=>
                  (~ingest.alchemy \/ \E k \in Over(c, "alchemy") : ~c[k].ok)
            /\ tasks' = tasks
            /\ IF succeeded # {}
               THEN /\ succeeded = {Len(c)}
                    /\ ingest'.pc = "logs"
                    /\ ingest'.receipt = c[Len(c)].value
                    /\ ingest'.receipt \in Receipts
                    /\ ingest'.emitted = ingest.emitted
               ELSE /\ ingest'.pc = "loop" /\ ingest'.i = ingest.i + 1
                    /\ ingest'.emitted =
                          Append(ingest.emitted, Emit("Failures", "ExplorerError"))]_vars

\* Alchemy has failed and the explorer has returned the receipt in hand
ReceiptFallbackWitness ==
    /\ ingest # Nothing /\ ingest.pc = "logs"
    /\ \E k \in 1..(Len(ingest.calls) - 1) :
          /\ ingest.calls[k] = Call("alchemy", FALSE, Nothing)
          /\ ingest.calls[k + 1] = Call("explorer", TRUE, ingest.receipt)
    /\ "logs" \in DOMAIN ingest.receipt /\ ingest.receipt.logs # <<>>

\* the positions of the logs of a receipt that the monitored contract emitted
\* with a second topic of the hash shape
Qualifying(receipt) ==
    IF "logs" \notin DOMAIN receipt THEN {}
    ELSE {k \in 1..Len(receipt.logs) :
             /\ receipt.logs[k].address \in {"0xc0ffee", "0xC0FFEE"}
             /\ Len(receipt.logs[k].topics) >= 2
             /\ receipt.logs[k].topics[2] \in {"0xh1", "0xh2", "0xh3", "0xAAA", "0xCCC", "0xsig"}}

\* the step reads the logs of the receipt in hand
ExtractStep == ingest # Nothing /\ ingest.pc = "logs" /\ ingest' # ingest

(* C23: correlation extraction.  From a receipt the resolver returns the
   second topic of the first log, in receipt order, that the monitored
   contract emitted with a second topic of the 0x+64-hex shape, whatever the
   logs of other addresses hold; only a Task of that hash can be modified;
   with no such log the record is counted SoftMiss/CorrelationIdNotFound, no
   request is made, no Task changes and the next record follows. *)
CorrelationExtraction ==
    [][ExtractStep =>
         LET q == Qualifying(ingest.receipt)
         IN IF q = {}
            THEN /\ extractCorrelationIdFromLogs(ingest.receipt) = NoHex
                 /\ ingest'.emitted =
                       Append(ingest.emitted, Emit("SoftMiss", "CorrelationIdNotFound"))
                 /\ NewCalls = <<>>
                 /\ tasks' = tasks
                 /\ ingest'.pc = "loop" /\ ingest'.i = ingest.i + 1
            ELSE LET first == ingest.receipt.logs[Least(q)].topics[2]
                 IN /\ extractCorrelationIdFromLogs(ingest.receipt) = first
                    /\ NewCalls # <<>>
                    /\ \A id \in DOMAIN tasks :
                          tasks'[id] # tasks[id] => tasks[id].correlationIdHex = first]_vars

\* a receipt whose first log is of another address and whose second is the
\* monitored contract's has resolved the Task of the second log's hash
CorrelationExtractionWitness ==
    /\ ingest # Nothing /\ ingest.pc = "loop" /\ ingest.i = 2
    /\ ingest.receipt # Nothing /\ "logs" \in DOMAIN ingest.receipt
    /\ Len(ingest.receipt.logs) = 2
    /\ ingest.receipt.logs[1].address = "0xdead"
    /\ Qualifying(ingest.receipt) = {2}
    /\ \E id \in DOMAIN tasks :
          /\ tasks[id].correlationIdHex = ingest.receipt.logs[2].topics[2]
          /\ tasks[id].correlationIdHex # ingest.receipt.logs[1].topics[2]
          /\ tasks[id].correlationResolved
          /\ tasks[id].txHash = classification.txHash

\* the records that the invocation has taken in hand so far
Taken ==
    IF ingest.pc \in {"loop", "returned"} THEN ingest.i - 1 ELSE ingest.i

\* every record taken so far has been read once, in the order of delivery,
\* and no other
ReadOnceInOrder ==
    /\ \A r \in 1..Len(ingest.records) :
          Cardinality({k \in 1..Len(ingest.calls) :
                          ingest.calls[k].call = "s3.GetObject" /\ ingest.calls[k].rec = r})
             = (IF r <= Taken THEN 1 ELSE 0)
    /\ \A k \in 1..Len(ingest.calls) :
          /\ ingest.calls[k].rec \in 1..Taken
          /\ \A l \in k..Len(ingest.calls) : ingest.calls[k].rec <= ingest.calls[l].rec
    /\ \A k \in 1..Len(ingest.emitted) :
          /\ ingest.emitted[k].rec \in 1..Taken
          /\ \A l \in (k + 1)..Len(ingest.emitted) :
                ingest.emitted[k].rec < ingest.emitted[l].rec

\* the step counts a failure of the record in hand
FailureStep ==
    /\ ingest # Nothing /\ Len(ingest'.emitted) = Len(ingest.emitted) + 1
    /\ ingest'.emitted[Len(ingest'.emitted)].metric = "Failures"

(* C24: per-message isolation.  In an invocation with several records every
   record is taken in hand once, in the order of delivery; a failure on one
   record (object read, receipt fetch, store query or write) is counted and
   the handler goes on with the next record; the handler ends by returning
   ok with every record taken. *)
PerMessageIsolation ==
    /\ [](ingest # Nothing => ReadOnceInOrder)
    /\ [][FailureStep =>
             /\ ingest'.pc = "loop" /\ ingest'.i = ingest.i + 1
             /\ ingest'.records = ingest.records
             /\ ingest'.emitted[Len(ingest'.emitted)].rec = ingest.i]_vars
    /\ [](ingest # Nothing /\ ingest.pc = "returned" =>
             ingest.result.ok /\ Taken = Len(ingest.records))
    /\ <>(ingest # Nothing /\ ingest.pc = "returned")

\* the invocation has returned ok after a first record that could not be
\* read and a second one that resolved a Task
PerMessageIsolationWitness ==
    /\ ingest # Nothing /\ ingest.pc = "returned" /\ ingest.result.ok
    /\ Len(ingest.records) = 2
    /\ \E k \in 1..Len(ingest.emitted) :
          ingest.emitted[k] = [rec |-> 1, metric |-> "Failures", reason |-> "UnexpectedError"]
    /\ \E k \in 1..Len(ingest.calls) :
          ingest.calls[k] = [rec |-> 2, call |-> "ddb.Update", ok |-> TRUE, value |-> Nothing]
    /\ \E id \in DOMAIN tasks : tasks[id].correlationResolved

\* the step decides a poll: the execution leaves Found? and runs on
FoundStep ==
    /\ sm.status = "RUNNING" /\ sm.state = "Found?"
    /\ sm'.status = "RUNNING" /\ sm'.state # "Found?"

\* the Task that the poll has read, if it has read one
TaskRead == IF "Item" \in DOMAIN sm.ddbCorr THEN {sm.ddbCorr.Item} ELSE {}

(* C25: success predicate modes.  A poll goes on to success exactly when it
   has read a Task whose correlationResolved is true in mode correlation,
   whose balanceReceived is true in mode balance, and whose two flags are
   both true in any other mode; a poll that has read no Task never goes on
   to success, and a poll that does not succeed is counted. *)
SuccessPredicateModes ==
    [][FoundStep =>
         /\ sm'.state \in {"EmitSuccessMetric", "IncrementPollCount"}
         /\ sm'.state = "EmitSuccessMetric" <=>
               \E t \in TaskRead :
                  IF config.successMode = "correlation" THEN t.correlationResolved
                  ELSE IF config.successMode = "balance" THEN t.balanceReceived
                  ELSE t.correlationResolved /\ t.balanceReceived]_vars

\* in mode correlation a poll has succeeded on a Task whose balance has not
\* been received
SuccessPredicateModesWitness ==
    /\ sm.status = "RUNNING" /\ sm.state = "EmitSuccessMetric"
    /\ config.successMode = "correlation"
    /\ \E t \in TaskRead : t.correlationResolved /\ ~t.balanceReceived

\* the step invokes prepare-message
PrepareStep ==
    /\ sm.status = "RUNNING" /\ sm.state = "PrepareMessage"
    /\ sm'.status = "RUNNING" /\ sm'.state = "AdoptPreparedValues"

\* the step sends the probe message
SendStep == sm.status = "RUNNING" /\ Len(queue') = Len(queue) + 1

\* the Tasks that init-record created for the attempt under way
AttemptTask ==
    {id \in DOMAIN tasks :
        /\ \E k \in 1..Len(IdSeq) : IdSeq[k] = id
        /\ tasks[id].attempt = sm.attempt /\ tasks[id].status = "PENDING"}

(* C26: idHash agreement.  In every attempt the correlationIdHex32 that
   prepare-message computes, and that the probe message carries, equals the
   correlationIdHex that init-record stored on the Task of that attempt, so
   that the reconciler's filter on the hash of the event selects that Task. *)
IdHashAgreement ==
    [][/\ PrepareStep =>
            /\ sm.correlationId \in AttemptTask
            /\ sm'.prep.correlationIdHex32 = tasks[sm.correlationId].correlationIdHex
            /\ sm'.prep.messageBody.correlationIdHex32 = sm'.prep.correlationIdHex32
       /\ SendStep =>
            LET sent == queue'[Len(queue')].correlationIdHex32
            IN /\ \E id \in AttemptTask : tasks[id].correlationIdHex = sent
               /\ \A id \in AttemptTask : EventFilter(tasks[id], sent)]_vars

\* the message of a second attempt is in flight with the hash stored on the
\* Task of the second id
IdHashAgreementWitness ==
    /\ sm.status = "RUNNING" /\ sm.state = "WaitForEmail" /\ sm.attempt = 2
    /\ IdSeq[2] \in AttemptTask
    /\ queue # <<>>
    /\ queue[Len(queue)].correlationIdHex32 = tasks[IdSeq[2]].correlationIdHex
    /\ queue[Len(queue)].correlationIdHex32 # queue[1].correlationIdHex32

(* C27: retention marker.  At every state the ttl of every Task is
   floor(createdAtMs / 1000) plus five years of 365 days in seconds, and no
   step changes the ttl or the createdAtMs of a Task that exists, whatever
   the transition (retry of the creation, event, balance) and its time. *)
RetentionMarker ==
    /\ [](\A id \in DOMAIN tasks :
             tasks[id].ttl = (tasks[id].createdAtMs \div 1000) + 5 * 365 * 24 * 60 * 60)
    /\ [][\A id \in DOMAIN tasks :
             /\ id \in DOMAIN tasks'
             /\ tasks'[id].ttl = tasks[id].ttl
             /\ tasks'[id].createdAtMs = tasks[id].createdAtMs]_vars

\* a Task resolved by an event and by a balance, both in a later second than
\* the one of its creation
RetentionMarkerWitness ==
    \E id \in DOMAIN tasks :
       /\ tasks[id].correlationResolved /\ tasks[id].balanceReceived
       /\ tasks[id].status = "SUCCESS"
       /\ tasks[id].eventEmailAtMs \div 1000 > tasks[id].createdAtMs \div 1000
       /\ tasks[id].balanceEmailAtMs \div 1000 > tasks[id].createdAtMs \div 1000
       /\ tasks[id].updatedAtMs \div 1000 > tasks[id].createdAtMs \div 1000

\* the value of a field of the body is a string of 0x and exactly 64
\* hexadecimal digits
WellFormed(body, name) ==
    /\ body.type = "object"
    /\ name \in DOMAIN body.fields
    /\ body.fields[name].type = "string"
    /\ body.fields[name].prefix = "0x"
    /\ body.fields[name].digits = 64
    /\ body.fields[name].chars # "other"

(* C28: probe message validation.  validateMessage succeeds exactly for an
   object whose correlationIdHex32 and tagHex32 are both strings of 0x and
   64 hexadecimal digits, and then returns those two values as its params;
   for an object it rejects, the error names correlationIdHex32 when that
   field is at fault and tagHex32 only when correlationIdHex32 is in order;
   for a body that is no object the error says so. *)
MessageValidation ==
    sender # Nothing /\ sender.pc = "validated" =>
       LET body == sender.body
           v == sender.validation
       IN /\ v.success <=>
                WellFormed(body, "correlationIdHex32") /\ WellFormed(body, "tagHex32")
          /\ v.success =>
                v.params = [correlationIdHex32 |-> body.fields.correlationIdHex32,
                            tagHex32 |-> body.fields.tagHex32]
          /\ ~v.success =>
                v.error = (IF body.type # "object"
                           THEN "Message body must be a JSON object"
                           ELSE IF ~WellFormed(body, "correlationIdHex32")
                           THEN "Invalid correlationIdHex32 (must be 0x + 64 hex chars)"
                           ELSE "Invalid tagHex32 (must be 0x + 64 hex chars)")

\* a body whose two fields are both at fault has been rejected for its
\* correlationIdHex32
MessageValidationWitness ==
    /\ sender # Nothing /\ sender.pc = "validated"
    /\ sender.body.type = "object"
    /\ DOMAIN sender.body.fields = {"correlationIdHex32", "tagHex32"}
    /\ ~WellFormed(sender.body, "correlationIdHex32")
    /\ ~WellFormed(sender.body, "tagHex32")
    /\ sender.validation.error = "Invalid correlationIdHex32 (must be 0x + 64 hex chars)"

\* the step mines a transaction that calls ping
PingStep == chain # Nothing /\ Len(chain'.txs) = Len(chain.txs) + 1

(* C29: authorization-gated emitter.  A call of ping by a holder of
   SENDER_ROLE adds exactly one E2ePing event to the log, with the
   correlationId, clientTimestamp, nonce and tag of the call, the caller as
   sender and the timestamp of the block; a call by an account that does not
   hold the role reverts and adds no event; no event is ever removed. *)
GatedEmitter ==
    [][PingStep =>
         LET tx == chain'.txs[Len(chain'.txs)]
         IN /\ chain'.roles = chain.roles
            /\ IF tx.from \in chain.roles.SENDER_ROLE
               THEN /\ tx.status = "success"
                    /\ chain'.events =
                          Append(chain.events,
                                 [event |-> "E2ePing",
                                  correlationId |-> tx.args.correlationId,
                                  sender |-> tx.from,
                                  clientTimestamp |-> tx.args.clientTimestamp,
                                  nonce |-> tx.args.nonce,
                                  blockTimestamp |-> chain'.blockTimestamp,
                                  tag |-> tx.args.tag])
               ELSE /\ tx.status = "reverted"
                    /\ chain'.events = chain.events]_vars

\* the administrator, who does not hold SENDER_ROLE, has called ping in vain
\* after a holder of the role had emitted an event
GatedEmitterWitness ==
    /\ chain # Nothing /\ Len(chain.txs) = 2 /\ Len(chain.events) = 1
    /\ chain.txs[1].status = "success" /\ chain.events[1].sender = chain.txs[1].from
    /\ chain.txs[2].status = "reverted"
    /\ chain.txs[2].from \in chain.roles.DEFAULT_ADMIN_ROLE

(* C30: poll key identity.  In every attempt each poll reads the table under
   the id under which init-record created the Task of that attempt, and so
   the read returns that Task. *)
PollKeyIdentity ==
    [][PollRead =>
         /\ AttemptTasks # {}
         /\ \A i \in AttemptTasks :
               /\ sm.correlationId = i
               /\ sm'.ddbCorr = [Item |-> tasks[i]]]_vars

----------------------------------------------------------------------------
(* Properties of the poll loop and of the attempt loop *)

\* the seconds that one attempt out of polls has waited: the settling delay
\* and thirteen poll intervals
SecondsOfFailedAttempt == 90 + 13 * 15

\* the execution enters AttemptFailed in this step
EntersAttemptFailed ==
    /\ sm.status = "RUNNING" /\ sm.state # "AttemptFailed"
    /\ sm'.status = "RUNNING" /\ sm'.state = "AttemptFailed"

\* the execution counts a poll in this step
CountsPoll ==
    /\ sm.status = "RUNNING" /\ sm'.status = "RUNNING"
    /\ sm'.state = "PollLimitReached?" /\ sm.state # "PollLimitReached?"

(* C31: poll limit.  Within one attempt the Task is read at most 14 times:
   the read after the 90 seconds of settling and at most 13 reads that each
   follow 15 seconds of waiting, so that the k-th read of attempt n is made
   when the execution has waited 285 (n - 1) + 90 + 15 (k - 1) seconds
   and pollCount is k - 1.  pollCount never exceeds 14, a poll is counted
   only when the Task just read failed the success condition, and
   AttemptFailed is entered from PollLimitReached? only, with pollCount 14,
   after the 14 reads of the attempt. *)
PollLimitBound ==
    /\ [](sm.pollCount \in 0..14)
    /\ [][/\ PollRead =>
               /\ sm.pollCount \in 0..13
               /\ sm.waitedSeconds =
                     SecondsOfFailedAttempt * (sm.attempt - 1) + 90 + 15 * sm.pollCount
               /\ sm.pollCount = 0 <=> sm.state = "Check DDB Item"
          /\ CountsPoll =>
               /\ sm.state = "IncrementPollCount"
               /\ sm'.pollCount = sm.pollCount + 1
               /\ \A t \in TaskRead :
                     ~(t.correlationResolved /\ t.balanceReceived)
          /\ (sm.status = "RUNNING" /\ sm'.status = "RUNNING"
                /\ sm'.state = "IncrementPollCount") =>
               sm.state = "Found?"
          /\ EntersAttemptFailed =>
               /\ sm.state = "PollLimitReached?"
               /\ sm.pollCount = 14
               /\ sm.waitedSeconds = SecondsOfFailedAttempt * sm.attempt]_vars

\* the second attempt of an execution has run out of polls after its 14 reads
PollLimitBoundWitness ==
    /\ sm.status = "RUNNING" /\ sm.state = "AttemptFailed"
    /\ sm.attempt = 2 /\ sm.pollCount = 14
    /\ sm.waitedSeconds = 2 * SecondsOfFailedAttempt
    /\ Len(Named("AttemptFailed")) = 1

\* the ids of the Tasks that the attempts of the execution have created
CreatedIds == {IdSeq[k] : k \in 1..Len(IdSeq)} \cap DOMAIN tasks

\* the step generates the id of an attempt
GenerateStep ==
    /\ sm.status = "RUNNING" /\ sm.state = "GenerateCorrelationId"
    /\ sm'.status = "RUNNING" /\ sm'.state = "Initialize DDB Record"

\* the step invokes init-record for the attempt
CreateStep ==
    /\ sm.status = "RUNNING" /\ sm.state = "Initialize DDB Record"
    /\ sm'.status = "RUNNING" /\ sm'.state = "SetDefaultTagSeed"

(* C32: orchestrator termination.  An execution every state of which
   completes comes to an end in Success or in AllAttemptsFailed, having made
   at most totalAttempts attempts.  The attempt counter is 1 from
   InitAttempts on and changes only in IncrementAttempt, by exactly 1, once
   per failed attempt; every attempt starts with pollCount 0 and an id that
   no earlier attempt had and no Task is stored under, and creates a new
   pending Task under that id with the number of the attempt. *)
OrchestratorTermination ==
    /\ <>(sm.status \in {"SUCCEEDED", "FAILED"})
    /\ [](/\ sm.status \in {"RUNNING", "SUCCEEDED", "FAILED"}
          /\ sm.status = "SUCCEEDED" => sm.state = "Success"
          /\ sm.status = "FAILED" =>
                sm.state = "AllAttemptsFailed" /\ sm.attempt = config.totalAttempts + 1
          /\ Cardinality(CreatedIds) <= config.totalAttempts
          /\ Len(queue) <= Cardinality(CreatedIds)
          /\ sm.state # "InitAttempts" =>
                /\ sm.attempt = Len(Named("AttemptFailed")) + 1
                     \/ (sm.attempt = Len(Named("AttemptFailed"))
                           /\ sm.state = "IncrementAttempt")
                /\ Cardinality(CreatedIds) \in {sm.attempt - 1, sm.attempt})
    /\ [][/\ sm'.attempt # sm.attempt =>
               \/ sm.state = "InitAttempts" /\ sm'.attempt = 1
               \/ /\ sm.state = "IncrementAttempt" /\ sm'.state = "HasAttemptsLeft?"
                  /\ sm'.attempt = sm.attempt + 1
          /\ GenerateStep =>
               /\ sm.attempt \in 1..config.totalAttempts
               /\ sm'.attempt = sm.attempt
               /\ sm'.pollCount = 0
               /\ sm'.correlationId \notin DOMAIN tasks
               /\ Cardinality(CreatedIds) = sm.attempt - 1
          /\ CreateStep =>
               /\ DOMAIN tasks' = DOMAIN tasks \cup {sm.correlationId}
               /\ sm.correlationId \notin DOMAIN tasks
               /\ \A i \in DOMAIN tasks : tasks'[i] = tasks[i]
               /\ tasks'[sm.correlationId].attempt = sm.attempt
               /\ tasks'[sm.correlationId].status = "PENDING"
               /\ sm'.pollCount = 0]_vars

\* an execution of two attempts has ended in AllAttemptsFailed with one Task
\* per attempt, under two ids
OrchestratorTerminationWitness ==
    /\ sm.status = "FAILED" /\ sm.state = "AllAttemptsFailed"
    /\ config.totalAttempts = 2 /\ sm.attempt = 3
    /\ CreatedIds = {IdSeq[1], IdSeq[2]}
    /\ tasks[IdSeq[1]].attempt = 1 /\ tasks[IdSeq[2]].attempt = 2

\* the step puts a metric of this name
Puts(name) == Len(Named(name)') > Len(Named(name))

\* the execution runs in this state or was cut by its timeout there
In(state, end) ==
    sm.state = state /\ sm.status \in {"RUNNING", end, "TIMED_OUT"}

(* C33: outcome exclusivity.  In one execution the Success metric and the
   FinalFailed metric are put at most once each and never both.  Success is
   put only by the step from EmitSuccessMetric into Success, FinalFailed only
   by the step from EmitFinalFailedMetric into AllAttemptsFailed, and the
   step that the execution takes from there is its end: SUCCEEDED in the one
   case and FAILED in the other, unless the timeout of the execution cuts it
   first.  An execution that ends SUCCEEDED has put Success, one that ends
   FAILED has put FinalFailed. *)
OutcomeExclusivity ==
    /\ [](/\ Len(Named("Success")) + Len(Named("FinalFailed")) <= 1
          /\ Named("Success") # <<>> <=> In("Success", "SUCCEEDED")
          /\ Named("FinalFailed") # <<>> <=> In("AllAttemptsFailed", "FAILED")
          /\ sm.status = "SUCCEEDED" => Len(Named("Success")) = 1
          /\ sm.status = "FAILED" => Len(Named("FinalFailed")) = 1)
    /\ [][/\ Puts("Success") =>
               /\ Running("EmitSuccessMetric")
               /\ sm'.state = "Success" /\ sm'.status = "RUNNING"
               /\ metrics' = Append(metrics, metrics'[Len(metrics')])
          /\ Puts("FinalFailed") =>
               /\ Running("EmitFinalFailedMetric")
               /\ sm'.state = "AllAttemptsFailed" /\ sm'.status = "RUNNING"
               /\ Len(Named("FinalFailed")') = 1
          /\ Running("Success") => sm'.status \in {"SUCCEEDED", "TIMED_OUT"}
          /\ Running("AllAttemptsFailed") => sm'.status \in {"FAILED", "TIMED_OUT"}]_vars

\* an execution has ended SUCCEEDED with Success put once, as its last
\* metric, and FinalFailed never
OutcomeExclusivityWitness ==
    /\ sm.status = "SUCCEEDED" /\ sm.state = "Success"
    /\ Len(Named("Success")) = 1 /\ Named("FinalFailed") = <<>>
    /\ metrics[Len(metrics)].MetricName = "Success"

----------------------------------------------------------------------------
(* Properties of concurrent balance notifications *)

\* every invocation of the behaviour is a balance notification in its
\* candidate loop, and all have read the Tasks of S as their candidates
ObservedAlike(S) ==
    \A p \in Procs :
       /\ procs[p].op = "balance" /\ procs[p].pc = "loop"
       /\ {procs[p].items[k].correlationId : k \in 1..Len(procs[p].items)} = S

\* the invocations that attached their notification, and the Tasks of S that
\* have one
Attachers == {p \in Procs : procs[p].pc = "done" /\ procs[p].outcome = "BalanceAttached"}
Claimed(S) == {i \in S \cap DOMAIN tasks : tasks[i].balanceReceived = TRUE}

(* C34: balance claims are exclusive.  An iteration of the candidate loop
   changes at most one Task; when it does, the Task had balanceReceived
   false and no balanceEmailAtMs, it gets both, and the invocation returns
   with that step, so one invocation attaches to at most one Task and no
   Task takes the balance fields of two invocations.  When all N invocations
   of a behaviour are balance notifications that read the same M candidates,
   then once all have returned exactly min(N, M) of these Tasks have
   balanceReceived true, each attached by a different invocation, and the
   other invocations report SoftMiss/BalanceDuplicate. *)
BalanceClaimsExclusive ==
    /\ [][\A p \in Procs :
             LoopStep(p) =>
                /\ DOMAIN tasks' = DOMAIN tasks
                /\ Modified \in {{}, {Cand(p)}}
                /\ Modified # {} =>
                      /\ tasks[Cand(p)].balanceReceived = FALSE
                      /\ tasks[Cand(p)].balanceEmailAtMs = NoMs
                      /\ tasks'[Cand(p)].balanceReceived = TRUE
                      /\ tasks'[Cand(p)].balanceEmailAtMs = procs[p].nowMs
                      /\ procs'[p].pc = "done"
                      /\ procs'[p].outcome = "BalanceAttached"
                      /\ procs'[p].correlationId = Cand(p)
                /\ procs'[p].outcome = "BalanceAttached" => Modified # {}]_vars
    /\ \A S \in SUBSET Ids \ {{}} :
          [](ObservedAlike(S) =>
                /\ Claimed(S) = {}
                /\ []((\A p \in Procs : procs[p].pc = "done") =>
                        /\ Cardinality(Claimed(S)) =
                              IF NProcs <= Cardinality(S) THEN NProcs ELSE Cardinality(S)
                        /\ Cardinality(Attachers) = Cardinality(Claimed(S))
                        /\ Claimed(S) = {procs[p].correlationId : p \in Attachers}
                        /\ \A p \in Procs \ Attachers :
                              procs[p].outcome = "SoftMiss/BalanceDuplicate"))

\* two balance notifications that read the same single candidate have
\* returned: one attached, the other found the Task taken
BalanceClaimsExclusiveWitness ==
    /\ \A p \in Procs : procs[p].op = "balance" /\ procs[p].pc = "done"
    /\ Cardinality(Attachers) = 1
    /\ \E p \in Procs : procs[p].outcome = "SoftMiss/BalanceDuplicate"
    /\ Cardinality({i \in DOMAIN tasks : tasks[i].balanceReceived}) = 1

----------------------------------------------------------------------------
(* Properties of one invocation on a filled table *)

\* the Tasks of the table that lie in the window of an invocation whose
\* Date.now() was nowMs and that have their event but no balance
EventOnlyInWindow(nowMs) ==
    {i \in DOMAIN tasks : InWindow(tasks[i], nowMs) /\ IsEventOnly(tasks[i])}

(* C35: newest-first within a tier.  The candidate list that a balance
   notification draws from its query has the Tasks with their event before
   the pending ones, and within each of the two tiers it runs from the
   latest createdAtMs to the earliest.  When several Tasks of the window have
   their event and no balance, the notification, running alone, is attached
   by its first write to the one of them that was created latest, which
   becomes SUCCESS; no other Task changes. *)
NewestInTierFirst ==
    [][\A p \in Procs :
          /\ Starts(p, "balance") =>
                \A k, l \in 1..Len(procs'[p].items) :
                   k < l =>
                      /\ TierOf(procs'[p].items[k]) <= TierOf(procs'[p].items[l])
                      /\ TierOf(procs'[p].items[k]) = TierOf(procs'[p].items[l]) =>
                            procs'[p].items[k].createdAtMs >= procs'[p].items[l].createdAtMs
          /\ (LoopStep(p) /\ Cardinality(EventOnlyInWindow(procs[p].nowMs)) >= 2) =>
                /\ Cand(p) \in EventOnlyInWindow(procs[p].nowMs)
                /\ \A i \in EventOnlyInWindow(procs[p].nowMs) :
                      tasks[i].createdAtMs <= tasks[Cand(p)].createdAtMs
                /\ Modified = {Cand(p)}
                /\ tasks'[Cand(p)].balanceReceived = TRUE
                /\ tasks'[Cand(p)].status = "SUCCESS"
                /\ procs'[p].pc = "done"
                /\ procs'[p].outcome = "BalanceAttached"]_vars

\* of two Tasks with their event, the one created later has taken the
\* balance; the earlier one and a still later pending Task have none
NewestInTierFirstWitness ==
    \E p \in Procs, i, j, k \in DOMAIN tasks :
        /\ procs[p].pc = "done" /\ procs[p].outcome = "BalanceAttached"
        /\ procs[p].correlationId = i
        /\ tasks[i].status = "SUCCESS"
        /\ tasks[j].status = "EVENT_ONLY" /\ tasks[j].createdAtMs < tasks[i].createdAtMs
        /\ tasks[k].status = "PENDING" /\ tasks[k].createdAtMs >= tasks[i].createdAtMs

(* C36: SUCCESS is sound.  In every state, whatever the interleaving of the
   event and balance notifications and of init-record, a Task stored with
   status SUCCESS has correlationResolved and balanceReceived both true, a
   Task with status EVENT_ONLY has correlationResolved true, and a Task with
   status BALANCE_ONLY has balanceReceived true. *)
StatusSound ==
    \A i \in DOMAIN tasks :
       /\ tasks[i].status \in {"PENDING", "EVENT_ONLY", "BALANCE_ONLY", "SUCCESS"}
       /\ tasks[i].status = "SUCCESS" =>
             tasks[i].correlationResolved = TRUE /\ tasks[i].balanceReceived = TRUE
       /\ tasks[i].status = "EVENT_ONLY" => tasks[i].correlationResolved = TRUE
       /\ tasks[i].status = "BALANCE_ONLY" => tasks[i].balanceReceived = TRUE

\* an event notification and a balance notification have both been applied
\* to one Task, which is stored as SUCCESS
StatusSoundWitness ==
    \E p, q \in Procs :
        /\ procs[p].pc = "done" /\ procs[p].outcome = "EventApplied"
        /\ procs[q].pc = "done" /\ procs[q].outcome = "BalanceAttached"
        /\ procs[p].correlationId = procs[q].correlationId
        /\ tasks[procs[p].correlationId].status = "SUCCESS"

\* the Tasks that are among the 10 created latest: fewer than 10 others
\* are as late or later
AmongTenNewest ==
    {i \in DOMAIN tasks :
        Cardinality({j \in DOMAIN tasks \ {i} :
                        tasks[j].createdAtMs >= tasks[i].createdAtMs}) < 10}

\* the Tasks with hash h whose event is not resolved
Unresolved(h) ==
    {i \in DOMAIN tasks :
        tasks[i].correlationIdHex = h /\ tasks[i].correlationResolved = FALSE}

(* C37: event lookup bound.  An event notification with hash h, running
   alone, goes on to its update exactly when an unresolved Task with hash h
   is among the 10 Tasks created latest, and then it sets correlationResolved
   on such a Task and on no other; when unresolved Tasks with hash h exist
   but none is among those 10, it changes nothing and reports
   SoftMiss/EventRecordNotFound. *)
EventLookupBound ==
    [][\A p \in Procs :
          /\ Starts(p, "event") =>
                LET h == procs'[p].correlationIdHex
                IN /\ Modified = {}
                   /\ IF Unresolved(h) \cap AmongTenNewest # {}
                      THEN /\ procs'[p].pc = "update"
                           /\ procs'[p].correlationId \in Unresolved(h) \cap AmongTenNewest
                      ELSE /\ procs'[p].pc = "done"
                           /\ procs'[p].outcome = "SoftMiss/EventRecordNotFound"
          /\ (procs[p].op = "event" /\ procs[p].pc = "update" /\ Steps(p)) =>
                /\ Modified = {procs[p].correlationId}
                /\ procs[p].correlationId \in Unresolved(procs[p].correlationIdHex)
                /\ tasks'[procs[p].correlationId].correlationResolved = TRUE
                /\ procs'[p].outcome = "EventApplied"]_vars

\* an event notification has reported that no record was found although the
\* unresolved Task of its hash is in the table, behind 10 later Tasks
EventLookupBoundWitness ==
    \E p \in Procs :
        /\ procs[p].pc = "done" /\ procs[p].op = "event"
        /\ procs[p].outcome = "SoftMiss/EventRecordNotFound"
        /\ Unresolved(procs[p].correlationIdHex) # {}
        /\ Unresolved(procs[p].correlationIdHex) \cap AmongTenNewest = {}
        /\ Cardinality(AmongTenNewest) = 10

----------------------------------------------------------------------------
(* Properties of the tx-sender handler *)

\* the handler has returned the response of its tracker: no global error
BatchProcessed ==
    /\ sender.pc = "returned"
    /\ "processingResults" \in DOMAIN sender.response

\* the ids that the response hands back to the queue, in order
FailureIds ==
    [k \in 1..Len(sender.response.batchItemFailures) |->
        sender.response.batchItemFailures[k].itemIdentifier]

\* the sum of the four counters of the tracker
Counted(stats) ==
    stats.success + stats.validationErrors + stats.transactionErrors + stats.systemErrors

(* C38: retry partition of the probe sender.  When the handler has gone
   through a batch without a global error, the response has one result per
   message, in the order of the batch; batchItemFailures names exactly the
   messages whose result is an error of type transaction or system, each
   once; a message that was sent, or that failed validation, is not named,
   and a message whose body does not parse is; each of the four counters is
   the number of results of its kind, and their sum is the number of
   messages.  While the loop runs, the sum is the number of messages
   gone through. *)
RetryPartition ==
    /\ sender.pc = "loop" => Counted(sender.tracker.stats) = sender.i - 1
    /\ BatchProcessed =>
          LET details == sender.response.processingResults.details
              stats == sender.response.processingResults.stats
              Retried(d) == d.status = "error" /\ d.errorType \in {"transaction", "system"}
              Rejected(d) == d.status = "error" /\ d.errorType = "validation"
              Sent(d) == d.status = "success"
          IN /\ Len(details) = Len(sender.records)
             /\ \A k \in 1..Len(details) :
                   /\ details[k].messageId = sender.records[k].messageId
                   /\ Retried(details[k]) \/ Rejected(details[k]) \/ Sent(details[k])
                   /\ ~sender.records[k].body.parses => Retried(details[k])
                   /\ (/\ sender.records[k].body.parses
                       /\ sender.records[k].body.value.type # "object") =>
                         Rejected(details[k])
             /\ {FailureIds[k] : k \in 1..Len(FailureIds)} =
                   {details[k].messageId : k \in {j \in 1..Len(details) : Retried(details[j])}}
             /\ Len(FailureIds) = Cardinality({k \in 1..Len(details) : Retried(details[k])})
             /\ \A k \in 1..Len(details) :
                   Rejected(details[k]) \/ Sent(details[k]) =>
                      \A j \in 1..Len(FailureIds) : FailureIds[j] # details[k].messageId
             /\ stats.success = Cardinality({k \in 1..Len(details) : Sent(details[k])})
             /\ stats.validationErrors = Cardinality({k \in 1..Len(details) : Rejected(details[k])})
             /\ stats.transactionErrors + stats.systemErrors = Cardinality({k \in 1..Len(details) : Retried(details[k])})
             /\ stats.total = Len(sender.records)
             /\ Counted(stats) = Len(sender.records)

\* a batch of two has been gone through: one message failed validation and is
\* not handed back, the other failed in its transaction and is
RetryPartitionWitness ==
    /\ BatchProcessed
    /\ Len(sender.records) = 2
    /\ sender.response.processingResults.stats.validationErrors = 1
    /\ sender.response.processingResults.stats.transactionErrors = 1
    /\ Len(FailureIds) = 1

============================================================================
